---- MODULE Spec2Model ----
\* Deployment orchestration and live log streaming of the Kubespray API server
\* (src/kubespray/src/api/deployment.py): the admission slot, the Supervisor
\* task, the child process and its output pipe, the Redis status store and
\* pub/sub channel, the SSE adapter and the status endpoint; the WebSocket hub
\* endpoint (websocket_deployment.py) and the backend's WebSocket tunnel to it
\* (src/backend/src/api/kubespray_proxy.py); the generation service
\* (services/kubespray_service.py): inventory.ini, the deep merge, the cluster
\* options of a question set, the list of generated files and the session's
\* directory the generate route (kubespray_routes.py) writes them to.
\*
\* asyncio tasks interleave only at await points: one action is the code that
\* runs between two awaits, together with the effect of the awaited Redis call.
EXTENDS Integers, Sequences, FiniteSets, TLC

\* ---------------------------------------------------------------- bounds
\* Granted deploy requests (runs) in one behaviour.
MaxRuns == 2
\* Lines one child process writes to its stdout/stderr pipe.
MaxLines == 2
\* The status record's TTL (3600 s, deployment.py:313) in clock ticks.
TtlTicks == 1
\* SSE connections opened in one behaviour.
MaxConnects == 2
\* WebSocket connections accepted in one behaviour.
MaxSockets == 2
\* Nodes of a cluster topology.
MaxNodes == 3
\* Top-level keys of the documents that are merged.
MaxKeys == 1
\* Frames each side of a tunnel sends.
MaxRelay == 2
\* Files in the network directory of a question set.
MaxFiles == 2
\* Inbound frames the open WebSocket connections handle (each of them fewer).
MaxInbound == 1
\* Payloads another client publishes on the channels.
MaxForeign == 1

\* ---------------------------------------------------------------- values
Sessions == {"A", "B"}
Playbooks == {"cluster.yml"}
Clients == {"c1"}
Sockets == {"w1", "w2"}
RunIds == 1..MaxRuns
\* Python's None / JSON null: NULL where a string may stand, None where a
\* record or a number may stand (Some(x) is the value x).
NULL == "null"
None == <<>>
Some(x) == <<x>>
\* Exit codes of ansible-playbook: success and a failure.
ExitCodes == {0, 2}
\* Raw lines of the child's output, as characters. "\\xff" stands for a line
\* readline()/decode() raises on (not UTF-8, or longer than the reader limit).
Whitespace == {" ", "\n"}
RawLines == {<<"a", "\n">>, <<"b", " ", "\n">>, <<"\n">>, <<"\\xff", "\n">>}

VARIABLES
    inventory,                    \* sessions whose inventory.ini exists
    current_deployment_session,   \* the admission slot
    current_deployment_process,   \* the run whose child process is recorded
    store,                        \* Redis keys session:{id}:deploy:status
    handler,                      \* start_deployment suspended at its await
    grants,                       \* number of deploy requests granted so far
    tasks,                        \* Supervisor tasks (_execute_deployment)
    child,                        \* child processes and their output pipes
    published,                    \* per channel: every event Redis accepted
    sse,                          \* SSE streams (event_generator)
    connects,                     \* number of SSE connections opened so far
    resp,                         \* the HTTP response this step returned
    ws,                           \* WebSocket connections of the hub endpoint
    accepted,                     \* number of WebSocket connections accepted so far
    tunnel,                       \* the backend's WebSocket tunnel to the hub endpoint
    gen,                          \* one call of the inventory generation service
    active_connections,           \* manager.active_connections: session -> set of connections
    subscriptions,                \* Redis: the consumers subscribed to a channel
    journal,                      \* per run: the Supervisor's reads, writes and publishes
    bundle,                       \* each session's directory under inventory/
    budget                        \* how much of each bound this behaviour may use

vars == <<inventory, current_deployment_session, current_deployment_process, store,
          handler, grants, tasks, child, published, sse, connects, resp, ws, accepted,
          tunnel, gen, active_connections, subscriptions, journal, bundle, budget>>

\* ------------------------------------------------------ pure functions
\* str.rstrip(): drop trailing whitespace.
RECURSIVE rstrip(_)
rstrip(s) ==
    IF s = <<>> THEN <<>>
    ELSE IF s[Len(s)] \in Whitespace THEN rstrip(SubSeq(s, 1, Len(s) - 1))
    ELSE s

\* bytes.decode('utf-8') succeeds (and readline() returned the line).
Decodable(line) == \A i \in 1..Len(line) : line[i] # "\\xff"

\* The record start_deployment writes (deployment.py:88-95).
StartedRecord(s, p, at) ==
    [session_id |-> s, status |-> "started", playbook |-> p, started_at |-> at,
     completed_at |-> NULL, exit_code |-> None, ttl |-> TtlTicks]

\* _set_deployment_status: SETEX with the TTL; a Redis error is logged and
\* swallowed (ok = FALSE), leaving the store as it was.
SetDeploymentStatus(st, s, data, ok) ==
    IF ok THEN [st EXCEPT ![s] = [data EXCEPT !.ttl = TtlTicks]] ELSE st

\* Mutant of UpdateDeploymentStatus: an absent record is created.
UpdateDeploymentStatusCreates(st, s, status, exit_code, ok) ==
    IF ~ok THEN st
    ELSE SetDeploymentStatus(st, s,
            [session_id |-> s, status |-> status, playbook |-> NULL,
             started_at |-> 0, completed_at |-> NULL, exit_code |-> exit_code,
             ttl |-> TtlTicks],
            ok)

\* _update_deployment_status: read the record, change status (and exit_code,
\* completed_at), write it back; an absent record or a Redis error writes
\* nothing.
UpdateDeploymentStatus(st, s, status, exit_code, ok) ==
    IF ~ok \/ st[s] = None THEN st
    ELSE SetDeploymentStatus(st, s,
            [st[s] EXCEPT
                !.status = status,
                !.exit_code = IF exit_code # None THEN exit_code ELSE @,
                !.completed_at = IF status \in {"completed", "failed"}
                                 THEN "ts" ELSE @],
            ok)

\* get_deployment_status: 404 for an absent (or expired) record.
GetDeploymentStatus(s) ==
    IF store[s] = None THEN [code |-> 404, body |-> None]
    ELSE [code |-> 200,
          body |-> [session_id |-> store[s].session_id,
                    status |-> store[s].status,
                    playbook |-> store[s].playbook,
                    started_at |-> store[s].started_at,
                    completed_at |-> store[s].completed_at,
                    exit_code |-> store[s].exit_code]]

\* Mutant of Admission: only another session's deployment is a conflict.
AdmissionOtherOnly(s) ==
    IF s \notin inventory THEN 404
    ELSE IF current_deployment_session \notin {NULL, s} THEN 409
    ELSE 200

\* Mutant of Admission: the slot is checked before the inventory.
AdmissionSlotFirst(s) ==
    IF current_deployment_session # NULL THEN 409
    ELSE IF s \notin inventory THEN 404
    ELSE 200

\* The admission decision of start_deployment, in the order of the code:
\* inventory check (404), then slot check (409), else granted.
Admission(s) ==
    IF s \notin inventory THEN 404
    ELSE IF current_deployment_session # NULL THEN 409
    ELSE 200

\* Mutant of AcquireSlot: the handler suspends without having set the slot.
AcquireSlotMissing(s) == NULL

\* What start_deployment stores in the slot once the request is admitted.
AcquireSlot(s) == s

\* Mutant of ReleaseSlot: the Supervisor returns without clearing the slot.
ReleaseSlotMissing(s) == s

\* What the finally block of _execute_deployment leaves in the slot.
ReleaseSlot(s) == NULL

\* final_status of _execute_deployment (deployment.py:230).
FinalStatus(exit_code) == IF exit_code = 0 THEN "completed" ELSE "failed"

\* A Supervisor task that was not created yet, and one that returned (its
\* locals are gone). early: the streams (by id) that were subscribed to the
\* session's channel when the child was spawned.
NoTask == [session |-> NULL, playbook |-> NULL, pc |-> "none", exit_code |-> None,
           early |-> {}]
DoneTask == [NoTask EXCEPT !.pc = "done"]
\* A child process that was not spawned yet, and one that was reaped and
\* dropped. out: every line it wrote; pipe: the lines not read yet.
NoChild == [state |-> "none", code |-> None, out |-> <<>>, pipe |-> <<>>]
GoneChild == [NoChild EXCEPT !.state = "gone"]
\* No SSE stream: none was opened, or it ended (its generator is gone).
\* id: the number of the connection; frames: the frames sent to the client;
\* queue: messages of the subscription not yet consumed; connAt, subAt: the
\* channel's event count when the connected frame was yielded and when the
\* subscription was made.
NoStream == [pc |-> "idle", id |-> 0, session |-> NULL, queue |-> <<>>,
             frames |-> <<>>, subAt |-> 0, connAt |-> 0]

\* No WebSocket connection: none was accepted, or its handler returned.
\* sub: where the connection's subscribe_redis_logs task stands ("none": not
\* subscribed yet, "subscribed", "ended"); queue: messages of its subscription
\* not yet consumed; frames: the frames sent to the client; inbox: the
\* inbound frames taken so far; regAt: the channel's event count when the
\* connection was registered.
NoSocket == [pc |-> "idle", session |-> NULL, sub |-> "none", queue |-> <<>>,
             frames |-> <<>>, inbox |-> <<>>, regAt |-> 0]

\* No tunnel: websocket_deployment_logs_proxy was not called yet. client,
\* upstream: the two sockets ("none", "open", "closed"); c2s, s2c: the two
\* relay coroutines ("none", "recv": waiting for a frame, "send": holding the
\* frame in held, "done"); handler: the proxy handler; fromClient,
\* fromUpstream: frames sent by a side and not yet taken by the relay;
\* toUpstream, toClient: how many frames the relay passed on; sentUp,
\* sentDown: how many frames each side sent.
NoTunnel ==
    [handler |-> "idle", client |-> "none", upstream |-> "none",
     c2s |-> [pc |-> "none", held |-> NULL], s2c |-> [pc |-> "none", held |-> NULL],
     fromClient |-> <<>>, fromUpstream |-> <<>>, toUpstream |-> <<>>,
     toClient |-> <<>>, sentUp |-> 0, sentDown |-> 0]

\* No call of KubesprayInventoryService is under way. op: "inventory"
\* (_generate_inventory_ini), "merge" (_deep_merge) or "config"
\* (_generate_k8s_cluster_config); topology, base, override: the arguments;
\* ini, merged: the result (None: not computed yet). For "config":
\* question_set_id is the argument, base_file and override_file are the
\* content of templates/base.yml and of the question set's
\* base-overwrite.yml (None: the file does not exist), config is the result.
\* For "generate" (generate_inventory): session and question_set_id are the
\* arguments, fs says which source files exist, returned is the result.
NoCall == [op |-> "none", topology |-> <<>>, ini |-> None, base |-> <<>>,
           override |-> <<>>, merged |-> None, question_set_id |-> None,
           base_file |-> None, override_file |-> None, config |-> None,
           session |-> NULL, fs |-> None, returned |-> None]

\* ------------------------------------------------------ inventory.ini
\* VMNode records (schemas.py:30-34) and the topologies of up to MaxNodes
\* nodes, in the caller's order.
NodeNames == {"m1", "w1", "n1"}
Roles == {"master", "worker"}
VMNodes == [name : NodeNames, ip : {"10.0.0.1"}, role : Roles]
RECURSIVE SeqsUpTo(_, _)
SeqsUpTo(S, n) ==
    IF n = 0 THEN {<<>>}
    ELSE LET shorter == SeqsUpTo(S, n - 1)
         IN  shorter \cup {Append(q, x) : q \in {r \in shorter : Len(r) = n - 1}, x \in S}
Topologies == SeqsUpTo(VMNodes, MaxNodes)

\* A line of the file as its whitespace-separated words (key=value words as
\* pairs); <<>> is an empty line and a line starting with "#" a comment.
RECURSIVE HostLines(_)
HostLines(nodes) ==
    IF nodes = <<>> THEN <<>>
    ELSE <<<<Head(nodes).name, <<"ansible_host=", Head(nodes).ip>>,
             <<"ip=", Head(nodes).ip>>>>>> \o HostLines(Tail(nodes))
RECURSIVE NameLines(_)
NameLines(nodes) ==
    IF nodes = <<>> THEN <<>>
    ELSE <<<<Head(nodes).name>>>> \o NameLines(Tail(nodes))
IsMaster(node) == node.role = "master"

\* Mutant of ControlPlaneNodes: every node is listed in the control plane.
ControlPlaneNodesAll(nodes) == nodes

\* The nodes listed under [kube_control_plane] and [etcd]
\* (kubespray_service.py:111-119).
ControlPlaneNodes(nodes) == SelectSeq(nodes, IsMaster)

\* _generate_inventory_ini: the lines of inventory.ini.
GenerateInventoryIni(nodes) ==
    <<<<"#", "Kubespray inventory file">>, <<"#", "Generated at">>, <<>>,
      <<"[all]">>>>
    \o HostLines(nodes)
    \o <<<<>>, <<"[kube_control_plane]">>>> \o NameLines(ControlPlaneNodes(nodes))
    \o <<<<>>, <<"[etcd]">>>> \o NameLines(ControlPlaneNodes(nodes))
    \o <<<<>>, <<"[kube_node]">>>> \o NameLines(nodes)
    \o <<<<>>, <<"[calico_rr]">>, <<"#", "Route Reflector">>, <<>>,
          <<"[k8s_cluster:children]">>, <<"kube_control_plane">>,
          <<"kube_node">>, <<"calico_rr">>>>

\* --------------------------------------------------------- deep merge
\* YAML values, tagged by their Python type: int, list, dict. A dict is a
\* function from its keys to values.
IntValue(n) == [t |-> "int", v |-> n]
ListValue(q) == [t |-> "list", v |-> q]
MapValue(d) == [t |-> "map", v |-> d]
\* Every dict over some of the keys with values from the set.
Dicts(keys, values) == UNION {[ks -> values] : ks \in SUBSET keys}
Scalars == {IntValue(1), IntValue(2), IntValue(9)}
Lists == {ListValue(<<1>>), ListValue(<<2, 3>>)}
InnerDicts == Dicts({"x", "y"}, Scalars)
TopKeys == {<<"a", "b", "c">>[i] : i \in 1..MaxKeys}
\* The documents: an int, a list or a dict of ints under each top-level key.
Documents ==
    Dicts(TopKeys, {IntValue(1)} \cup Lists \cup {MapValue(d) : d \in InnerDicts})

\* Mutant of DeepMerge: dict.update, the override's value always wins.
ShallowMerge(base, override) ==
    [k \in DOMAIN base \cup DOMAIN override |->
        IF k \in DOMAIN override THEN override[k] ELSE base[k]]

\* _deep_merge (kubespray_service.py:201-211).
RECURSIVE DeepMerge(_, _)
DeepMerge(base, override) ==
    [k \in DOMAIN base \cup DOMAIN override |->
        IF k \notin DOMAIN override THEN base[k]
        ELSE IF k \in DOMAIN base /\ base[k].t = "map" /\ override[k].t = "map"
        THEN MapValue(DeepMerge(base[k].v, override[k].v))
        ELSE override[k]]

\* ------------------------------------------------- cluster options
\* question_set_id values, as strings of characters (a name is one
\* character here): absent, "", "cka", "cka/001", "/cka/001/".
QuestionSetIds ==
    {None, Some(<<>>), Some(<<"cka">>), Some(<<"cka", "/", "001">>),
     Some(<<"/", "cka", "/", "001", "/">>)}
\* The question set whose directory exists under question_sets/: exam_type
\* and set_id.
QuestionSetDir == <<<<"cka">>, <<"001">>>>

\* str.strip('/').
RECURSIVE lstrip(_)
lstrip(str) ==
    IF str # <<>> /\ Head(str) = "/" THEN lstrip(Tail(str)) ELSE str
RECURSIVE rstripSlash(_)
rstripSlash(str) ==
    IF str # <<>> /\ str[Len(str)] = "/"
    THEN rstripSlash(SubSeq(str, 1, Len(str) - 1)) ELSE str
strip(str) == rstripSlash(lstrip(str))
\* str.split('/'): the parts between the separators (a part is the
\* sequence of its characters, joined here to the one name it holds).
RECURSIVE split(_)
split(str) ==
    IF \A i \in 1..Len(str) : str[i] # "/" THEN <<str>>
    ELSE LET i == CHOOSE k \in 1..Len(str) :
                    str[k] = "/" /\ \A j \in 1..(k - 1) : str[j] # "/"
         IN  <<SubSeq(str, 1, i - 1)>> \o split(SubSeq(str, i + 1, Len(str)))

\* The path parts a question_set_id names: exam_type and set_id, or None
\* when the id is absent, empty or has fewer than two parts
\* (kubespray_service.py:163-166).
QuestionSetParts(question_set_id) ==
    IF question_set_id = None \/ question_set_id[1] = <<>> THEN None
    ELSE LET parts == split(strip(question_set_id[1]))
         IN  IF Len(parts) >= 2 THEN Some(<<parts[1], parts[2]>>) ELSE None

\* yaml.safe_load(f) or {} of a file that exists.
Load(file) == file[1]

\* The override file the call finds: overwrite_path.exists()
\* (kubespray_service.py:167-169).
OverrideFound(question_set_id, override_file) ==
    /\ QuestionSetParts(question_set_id) = Some(QuestionSetDir)
    /\ override_file # None

\* Mutant of GenerateK8sClusterConfig: without an override document the
\* options are empty.
GenerateK8sClusterConfigEmpty(base_file, question_set_id, override_file) ==
    LET base_config == IF base_file # None THEN Load(base_file) ELSE <<>>
    IN  IF OverrideFound(question_set_id, override_file)
        THEN DeepMerge(base_config, Load(override_file))
        ELSE <<>>

\* _generate_k8s_cluster_config (kubespray_service.py:149-180).
GenerateK8sClusterConfig(base_file, question_set_id, override_file) ==
    LET base_config == IF base_file # None THEN Load(base_file) ELSE <<>>
    IN  IF OverrideFound(question_set_id, override_file)
        THEN DeepMerge(base_config, Load(override_file))
        ELSE base_config

\* ------------------------------------------------- generated bundle
\* File names as stem and extension. The network directory of question set
\* cka/001 holds up to MaxFiles of these, listed in the order the file
\* system gives them.
NetworkNames == {<<"calico", "yml">>, <<"cni", "yml">>, <<"calico", "yaml">>}
Listings ==
    {l \in SeqsUpTo(NetworkNames, MaxFiles) :
        \A i, j \in 1..Len(l) : i # j => l[i] # l[j]}
\* The sources a call finds: question_sets/templates/all/etcd.yml,
\* question_sets/templates/addons.yml, and the listing of
\* question_sets/cka/001/network (None: no such directory).
FileSystems ==
    [etcd : BOOLEAN, addons : BOOLEAN,
     network : {None} \cup {Some(l) : l \in Listings}]
\* A file of a session's directory under inventory/.
Path(s, dir, name) == [session |-> s, dir |-> dir, name |-> name]
\* network_dir.glob("*.yml") keeps the names with that extension.
IsYml(name) == name[2] = "yml"

\* _copy_network_configs: the files it copied, in order
\* (kubespray_service.py:182-199).
CopyNetworkConfigs(s, question_set_id, fs) ==
    IF QuestionSetParts(question_set_id) = Some(QuestionSetDir) /\ fs.network # None
    THEN LET matched == SelectSeq(fs.network[1], IsYml)
         IN  [i \in 1..Len(matched) |-> Path(s, "group_vars/k8s_cluster", matched[i])]
    ELSE <<>>

\* Mutant of CopiedIfExists: the target is listed whether or not its source
\* exists.
CopiedAlways(exists, path) == <<path>>

\* shutil.copy2 under 'if ...exists()' followed by the append: the files
\* written by one of the optional copies (kubespray_service.py:68-71, 82-85).
CopiedIfExists(exists, path) == IF exists THEN <<path>> ELSE <<>>

\* generate_inventory: the directory and the list it returns; written is
\* every file the call wrote or copied, in the order of the writes
\* (kubespray_service.py:27-93).
GenerateInventoryFiles(s, question_set_id, fs) ==
    LET first == <<Path(s, "", <<"inventory", "ini">>),
                   Path(s, "group_vars/all", <<"all", "yml">>)>>
        etcd == CopiedIfExists(fs.etcd, Path(s, "group_vars/all", <<"etcd", "yml">>))
        options == <<Path(s, "group_vars/k8s_cluster", <<"k8s-cluster", "yml">>)>>
        addons == CopiedIfExists(fs.addons,
                        Path(s, "group_vars/k8s_cluster", <<"addons", "yml">>))
        network == IF question_set_id # None /\ question_set_id[1] # <<>>
                   THEN CopyNetworkConfigs(s, question_set_id, fs) ELSE <<>>
    IN  [inventory_path |-> s,
         generated_files |-> first \o etcd \o options \o addons \o network,
         written |-> first
                     \o (IF fs.etcd THEN <<Path(s, "group_vars/all", <<"etcd", "yml">>)>>
                         ELSE <<>>)
                     \o options
                     \o (IF fs.addons
                         THEN <<Path(s, "group_vars/k8s_cluster", <<"addons", "yml">>)>>
                         ELSE <<>>)
                     \o network]

\* ---------------------------------------------------------------- events
\* The payloads _send_log_event publishes: {"event_type": ..., "data": {...}}.
\* seq is not part of the payload: it numbers the events of a channel in the
\* order Redis accepted them.
LogEvent(line) == [event_type |-> "log", data |-> [message |-> line], seq |-> 0]
StatusEvent(status, code) ==
    [event_type |-> "status", data |-> [status |-> status, exit_code |-> code],
     seq |-> 0]
ErrorEvent == [event_type |-> "error", data |-> [error |-> "exception"], seq |-> 0]

\* Payloads another client of the Redis server publishes on a session's
\* channel: a text that is not JSON, a JSON value that is not an object, and
\* a JSON object without the data key (None, the empty dict, stands for its
\* data).
ForeignPayloads ==
    {[form |-> "text", event_type |-> NULL, data |-> None, seq |-> 0],
     [form |-> "value", event_type |-> NULL, data |-> None, seq |-> 0],
     [form |-> "object", event_type |-> "log", data |-> None, seq |-> 0]}
\* What json.loads makes of a payload: it raises ("text"), or returns a value
\* that is not a dict ("value") or a dict ("object", as for every payload of
\* _send_log_event).
Form(ev) == IF "form" \in DOMAIN ev THEN ev.form ELSE "object"
\* The dict has the data key.
HasData(ev) == Form(ev) = "object" /\ ev.data # None

Subscribed(c, s) == sse[c].pc = "listening" /\ sse[c].session = s

\* A Supervisor task, an SSE stream or a WebSocket connection of the session
\* exists.
Observed(s, tks, streams, socks) ==
    \/ \E r \in RunIds : tks[r].session = s
    \/ \E c \in Clients : streams[c].session = s
    \/ \E w \in Sockets : socks[w].session = s

\* published numbers a channel's events for those who watch it: the count
\* starts again at 0 once no task, no stream and no connection of the
\* session is left.
Renumber(pub, tks, streams, socks) ==
    [s \in Sessions |-> IF Observed(s, tks, streams, socks) THEN pub[s] ELSE 0]

\* redis PUBLISH: the event reaches every current subscriber of the channel and
\* is kept nowhere.
Deliver(streams, s, ev) ==
    [c \in Clients |->
        IF streams[c].pc = "listening" /\ streams[c].session = s
        THEN [streams[c] EXCEPT !.queue = Append(@, ev)]
        ELSE streams[c]]

\* _send_log_event: publish; a Redis error is logged and swallowed
\* (ok = FALSE). The channel's count and the streams after the call.
PublishedAfter(s, ok) ==
    IF ok THEN [published EXCEPT ![s] = @ + 1] ELSE published
StreamsAfter(s, ev, ok) ==
    IF ok THEN Deliver(sse, s, [ev EXCEPT !.seq = published[s] + 1]) ELSE sse

\* The same PUBLISH as the subscriptions of the WebSocket connections see it
\* (subscribe_redis_logs).
WsDeliver(socks, s, ev) ==
    [w \in Sockets |->
        IF socks[w].sub = "subscribed" /\ socks[w].session = s
        THEN [socks[w] EXCEPT !.queue = Append(@, ev)]
        ELSE socks[w]]
SocketsAfter(s, ev, ok) ==
    IF ok THEN WsDeliver(ws, s, [ev EXCEPT !.seq = published[s] + 1]) ELSE ws

\* The journal of run r after the Supervisor did these things; it is kept
\* only in the behaviours that examine it.
Journal(r, entries) ==
    IF budget.journal > 0 THEN [journal EXCEPT ![r] = @ \o entries] ELSE journal
\* Redis accepted a SETEX of a record with this status and exit code.
DidSet(status, exit_code) == [op |-> "set", status |-> status, exit_code |-> exit_code]
\* Redis accepted a PUBLISH of this event.
DidPublish(ev) == [op |-> "publish", event |-> ev]
\* readline() returned this line.
DidRead(line) == [op |-> "read", line |-> line]
\* process.wait() returned this exit code.
DidWait(exit_code) == [op |-> "wait", exit_code |-> exit_code]
\* What _update_deployment_status wrote: nothing when the record is absent
\* or Redis raised.
UpdateEntries(st, s, status, exit_code, ok) ==
    IF ~ok \/ st[s] = None THEN <<>>
    ELSE <<DidSet(status, IF exit_code # None THEN exit_code ELSE st[s].exit_code)>>
\* What _send_log_event published: nothing when Redis raised.
PublishEntries(ev, ok) == IF ok THEN <<DidPublish(ev)>> ELSE <<>>

\* A session's directory: the files it holds, how many generations wrote to
\* it, how the latest one ended ("none", "ok" or "failed") and the file list
\* the latest successful one returned.
NoBundle == [files |-> {}, writes |-> 0, outcome |-> "none", returned |-> <<>>]

\* The members of a sequence.
Range(q) == {q[i] : i \in 1..Len(q)}

\* The files generate_inventory writes before _generate_k8s_cluster_config
\* is called (kubespray_service.py:53-71).
WrittenBeforeConfig(s, fs) ==
    <<Path(s, "", <<"inventory", "ini">>), Path(s, "group_vars/all", <<"all", "yml">>)>>
    \o CopiedIfExists(fs.etcd, Path(s, "group_vars/all", <<"etcd", "yml">>))

\* The directory after one generation: files are created or overwritten in
\* place, none is removed (kubespray_service.py:41-89). config_ok is FALSE
\* when _generate_k8s_cluster_config raises (an unreadable or unparseable
\* base.yml, kubespray_service.py:74, 156-157): the call stops there.
BundleAfter(b, s, question_set_id, fs, config_ok) ==
    LET call == GenerateInventoryFiles(s, question_set_id, fs)
    IN  IF config_ok
        THEN [files |-> b.files \cup Range(call.written), writes |-> b.writes + 1,
              outcome |-> "ok", returned |-> call.generated_files]
        ELSE [files |-> b.files \cup Range(WrittenBeforeConfig(s, fs)),
              writes |-> b.writes + 1, outcome |-> "failed", returned |-> <<>>]

\* The sources of a bundle without optional files.
BareSources == [etcd |-> FALSE, addons |-> FALSE, network |-> None]

\* ------------------------------------------------------------------ Init
InitState ==
    /\ inventory = {}
    /\ current_deployment_session = NULL
    /\ current_deployment_process = None
    /\ store = [s \in Sessions |-> None]
    /\ handler = None
    /\ grants = 0
    /\ tasks = [r \in RunIds |-> NoTask]
    /\ child = [r \in RunIds |-> NoChild]
    /\ published = [s \in Sessions |-> 0]
    /\ sse = [c \in Clients |-> NoStream]
    /\ connects = 0
    /\ resp = None
    /\ ws = [w \in Sockets |-> NoSocket]
    /\ accepted = 0
    /\ tunnel = NoTunnel
    /\ gen = NoCall
    /\ bundle = [s \in Sessions |-> NoBundle]
    /\ journal = [r \in RunIds |-> <<>>]
    /\ subscriptions = {}
    /\ active_connections = <<>>


\* --------------------------------------------------------------- actions
\* POST .../kubespray/inventory succeeded: the session's inventory.ini exists.
GenerateInventory(s) ==
    /\ s \notin inventory
    /\ inventory' = inventory \cup {s}
    /\ bundle' = [bundle EXCEPT ![s] = BundleAfter(@, s, None, BareSources, TRUE)]
    /\ resp' = None
    /\ UNCHANGED <<current_deployment_session, current_deployment_process, store,
                   handler, grants, tasks, child, published, sse, connects, ws,
                   accepted, tunnel, gen, active_connections, subscriptions, journal,
                   budget>>

\* Generations counted over the sessions of S.
RECURSIVE WritesIn(_)
WritesIn(S) ==
    IF S = {} THEN 0
    ELSE LET s == CHOOSE x \in S : TRUE
         IN  bundle[s].writes + WritesIn(S \ {s})

\* POST .../kubespray/inventory with generate_inventory of the service: the
\* session's files are written, inventory.ini first, and the route answers 200
\* with the file list, or 500 when the service raised
\* (kubespray_routes.py:34-72, kubespray_service.py:27-93). The handler never
\* suspends, and it reads neither the slot nor the Status Store.
PostInventory(s, question_set_id, fs, config_ok) ==
    /\ WritesIn(Sessions) < budget.calls
    /\ inventory' = inventory \cup {s}
    /\ bundle' = [bundle EXCEPT ![s] = BundleAfter(@, s, question_set_id, fs, config_ok)]
    /\ resp' = [op |-> "generate", session |-> s,
                code |-> IF config_ok THEN 200 ELSE 500, status |-> NULL]
    /\ UNCHANGED <<current_deployment_session, current_deployment_process, store,
                   handler, grants, tasks, child, published, sse, connects, ws,
                   accepted, tunnel, gen, active_connections, subscriptions, journal,
                   budget>>


\* start_deployment, inventory missing: 404.
DeployNotFound(s) ==
    /\ Admission(s) = 404
    /\ resp' = [op |-> "deploy", session |-> s, code |-> 404, status |-> NULL]
    /\ UNCHANGED <<inventory, current_deployment_session, current_deployment_process,
                   store, handler, grants, tasks, child, published, sse, connects, ws,
                   accepted, tunnel, gen, active_connections, subscriptions, journal,
                   bundle, budget>>

\* Mutant of DeployConflict: the slot is overwritten before the check refuses.
DeployConflictOverwrites(s) ==
    /\ Admission(s) = 409
    /\ current_deployment_session' = s
    /\ resp' = [op |-> "deploy", session |-> s, code |-> 409, status |-> NULL]
    /\ UNCHANGED <<inventory, current_deployment_process, store, handler, grants,
                   tasks, child, published, sse, connects, ws, accepted, tunnel, gen,
                   active_connections, subscriptions, journal, bundle, budget>>

\* start_deployment, slot held: 409.
DeployConflict(s) ==
    /\ Admission(s) = 409
    /\ resp' = [op |-> "deploy", session |-> s, code |-> 409, status |-> NULL]
    /\ UNCHANGED <<inventory, current_deployment_session, current_deployment_process,
                   store, handler, grants, tasks, child, published, sse, connects, ws,
                   accepted, tunnel, gen, active_connections, subscriptions, journal,
                   bundle, budget>>

\* start_deployment, admitted: set the slot and suspend at
\* await _set_deployment_status (deployment.py:84-88).
DeployGrant(s, p) ==
    /\ grants < budget.runs
    /\ Admission(s) = 200
    /\ current_deployment_session' = AcquireSlot(s)
    /\ grants' = grants + 1
    /\ handler' = [run |-> grants + 1, session |-> s, playbook |-> p]
    /\ resp' = None
    /\ UNCHANGED <<inventory, current_deployment_process, store, tasks, child,
                   published, sse, connects, ws, accepted, tunnel, gen,
                   active_connections, subscriptions, journal, bundle, budget>>

\* Mutant of DeployReturn: the handler awaits the spawn and reports its
\* failure as an error of the deploy call.
DeployReturnReportsSpawn(ok) ==
    /\ handler # None
    /\ store' = SetDeploymentStatus(store, handler.session,
                    StartedRecord(handler.session, handler.playbook, handler.run), ok)
    /\ tasks' = [tasks EXCEPT ![handler.run] =
                    [session |-> handler.session, playbook |-> handler.playbook,
                     pc |-> "exc_update", exit_code |-> None, early |-> {}]]
    /\ handler' = None
    /\ journal' = Journal(handler.run, IF ok THEN <<DidSet("started", None)>> ELSE <<>>)
    /\ resp' = [op |-> "deploy", session |-> handler.session, code |-> 500,
                status |-> NULL]
    /\ UNCHANGED <<inventory, current_deployment_session, current_deployment_process,
                   grants, child, published, sse, connects, ws, accepted, tunnel, gen,
                   active_connections, subscriptions, bundle, budget>>

\* start_deployment resumes: the started record is written (or the write
\* failed and was swallowed), the Supervisor task is created and 200 returned
\* (deployment.py:88-108).
DeployReturn(ok) ==
    /\ handler # None
    /\ store' = SetDeploymentStatus(store, handler.session,
                    StartedRecord(handler.session, handler.playbook, handler.run), ok)
    /\ tasks' = [tasks EXCEPT ![handler.run] =
                    [session |-> handler.session, playbook |-> handler.playbook,
                     pc |-> "created", exit_code |-> None, early |-> {}]]
    /\ handler' = None
    /\ journal' = Journal(handler.run, IF ok THEN <<DidSet("started", None)>> ELSE <<>>)
    /\ resp' = [op |-> "deploy", session |-> handler.session, code |-> 200,
                status |-> "started"]
    /\ UNCHANGED <<inventory, current_deployment_session, current_deployment_process,
                   grants, child, published, sse, connects, ws, accepted, tunnel, gen,
                   active_connections, subscriptions, bundle, budget>>

\* start_deployment is cancelled while suspended at
\* await _set_deployment_status: CancelledError is no Exception, so it passes
\* the handler of _set_deployment_status (deployment.py:316) and leaves
\* start_deployment, which has no handler of its own: the slot stays set, no
\* record is written and no task is created (deployment.py:84-98).
DeployAbort ==
    /\ handler # None
    /\ handler' = None
    /\ resp' = None
    /\ UNCHANGED <<inventory, current_deployment_session, current_deployment_process,
                   store, grants, tasks, child, published, sse, connects, ws, accepted,
                   tunnel, gen, active_connections, subscriptions, journal, bundle,
                   budget>>

\* _execute_deployment: status running (deployment.py:210).
SupUpdateRunning(r, ok) ==
    /\ tasks[r].pc = "created"
    /\ store' = UpdateDeploymentStatus(store, tasks[r].session, "running", None, ok)
    /\ tasks' = [tasks EXCEPT ![r].pc = "spawn"]
    /\ journal' = Journal(r, UpdateEntries(store, tasks[r].session, "running", None, ok))
    /\ resp' = None
    /\ UNCHANGED <<inventory, current_deployment_session, current_deployment_process,
                   handler, grants, child, published, sse, connects, ws, accepted,
                   tunnel, gen, active_connections, subscriptions, bundle, budget>>

\* create_subprocess_exec succeeds: the process is recorded and the reader
\* starts (deployment.py:213-225).
SupSpawn(r) ==
    /\ tasks[r].pc = "spawn"
    /\ child' = [child EXCEPT ![r].state = "running"]
    /\ current_deployment_process' = Some(r)
    /\ tasks' = [tasks EXCEPT ![r].pc = "read",
                             ![r].early = {sse[c].id : c \in
                                {d \in Clients : Subscribed(d, tasks[r].session)}}]
    /\ resp' = None
    /\ UNCHANGED <<inventory, current_deployment_session, store, handler, grants,
                   published, sse, connects, ws, accepted, tunnel, gen,
                   active_connections, subscriptions, journal, bundle, budget>>

\* create_subprocess_exec raises: control goes to the except block
\* (deployment.py:243).
SupSpawnFails(r) ==
    /\ tasks[r].pc = "spawn"
    /\ tasks' = [tasks EXCEPT ![r].pc = "exc_update"]
    /\ resp' = None
    /\ UNCHANGED <<inventory, current_deployment_session, current_deployment_process,
                   store, handler, grants, child, published, sse, connects, ws,
                   accepted, tunnel, gen, active_connections, subscriptions, journal,
                   bundle, budget>>

\* What _stream_ansible_output does with one line it read: "raise" (readline
\* or decode raised: logged, the loop breaks), "skip" (empty after rstrip) or
\* "publish" (deployment.py:263-282).
ReadOutcome(line) ==
    IF ~Decodable(line) THEN "raise"
    ELSE IF rstrip(line) = <<>> THEN "skip"
    ELSE "publish"

\* _stream_ansible_output reads one line of the pipe and publishes it as a
\* log event.
SupReadLine(r, ok) ==
    /\ tasks[r].pc = "read"
    /\ child[r].pipe # <<>>
    /\ LET line == Head(child[r].pipe) IN
        /\ child' = [child EXCEPT ![r].pipe = Tail(@)]
        /\ tasks' = [tasks EXCEPT ![r].pc =
                        IF ReadOutcome(line) = "raise" THEN "wait" ELSE "read"]
        /\ IF ReadOutcome(line) = "publish"
           THEN /\ published' = PublishedAfter(tasks[r].session, ok)
                /\ sse' = StreamsAfter(tasks[r].session, LogEvent(rstrip(line)), ok)
                /\ ws' = SocketsAfter(tasks[r].session, LogEvent(rstrip(line)), ok)
           ELSE /\ ok
                /\ UNCHANGED <<published, sse, ws>>
    /\ journal' = Journal(r,
            <<DidRead(Head(child[r].pipe))>>
            \o (IF ReadOutcome(Head(child[r].pipe)) = "publish"
                THEN PublishEntries(LogEvent(rstrip(Head(child[r].pipe))), ok)
                ELSE <<>>))
    /\ resp' = None
    /\ UNCHANGED <<inventory, current_deployment_session, current_deployment_process,
                   store, handler, grants, connects, accepted, tunnel, gen,
                   active_connections, subscriptions, bundle, budget>>

\* readline returns b"" at end of output: the loop ends (deployment.py:265).
SupReadEof(r) ==
    /\ tasks[r].pc = "read"
    /\ child[r].pipe = <<>>
    /\ child[r].state = "exited"
    /\ tasks' = [tasks EXCEPT ![r].pc = "wait"]
    /\ resp' = None
    /\ UNCHANGED <<inventory, current_deployment_session, current_deployment_process,
                   store, handler, grants, child, published, sse, connects, ws,
                   accepted, tunnel, gen, active_connections, subscriptions, journal,
                   bundle, budget>>

\* process.wait() returns the exit code (deployment.py:228).
SupWait(r) ==
    /\ tasks[r].pc = "wait"
    /\ child[r].state = "exited"
    /\ tasks' = [tasks EXCEPT ![r].pc = "final_update", ![r].exit_code = child[r].code]
    /\ journal' = Journal(r, <<DidWait(child[r].code)>>)
    /\ resp' = None
    /\ UNCHANGED <<inventory, current_deployment_session, current_deployment_process,
                   store, handler, grants, child, published, sse, connects, ws,
                   accepted, tunnel, gen, active_connections, subscriptions, bundle,
                   budget>>

\* The final status is written (deployment.py:230-231).
SupFinalUpdate(r, ok) ==
    /\ tasks[r].pc = "final_update"
    /\ store' = UpdateDeploymentStatus(store, tasks[r].session,
                    FinalStatus(tasks[r].exit_code[1]), tasks[r].exit_code, ok)
    /\ tasks' = [tasks EXCEPT ![r].pc = "final_publish"]
    /\ journal' = Journal(r, UpdateEntries(store, tasks[r].session,
                        FinalStatus(tasks[r].exit_code[1]), tasks[r].exit_code, ok))
    /\ resp' = None
    /\ UNCHANGED <<inventory, current_deployment_session, current_deployment_process,
                   handler, grants, child, published, sse, connects, ws, accepted,
                   tunnel, gen, active_connections, subscriptions, bundle, budget>>

\* The terminal status event is published, then the finally block clears the
\* slot and the process (deployment.py:234-255).
SupFinalPublish(r, ok) ==
    /\ tasks[r].pc = "final_publish"
    /\ sse' = StreamsAfter(tasks[r].session,
                StatusEvent(FinalStatus(tasks[r].exit_code[1]), tasks[r].exit_code), ok)
    /\ ws' = SocketsAfter(tasks[r].session,
                StatusEvent(FinalStatus(tasks[r].exit_code[1]), tasks[r].exit_code), ok)
    /\ current_deployment_session' = ReleaseSlot(tasks[r].session)
    /\ current_deployment_process' = None
    /\ tasks' = [tasks EXCEPT ![r] = DoneTask]
    /\ published' = Renumber(PublishedAfter(tasks[r].session, ok), tasks', sse', ws')
    /\ child' = [child EXCEPT ![r] = IF @ = NoChild THEN @ ELSE GoneChild]
    /\ journal' = Journal(r, PublishEntries(
                        StatusEvent(FinalStatus(tasks[r].exit_code[1]), tasks[r].exit_code),
                        ok))
    /\ resp' = None
    /\ UNCHANGED <<inventory, store, handler, grants, connects, accepted, tunnel, gen,
                   active_connections, subscriptions, bundle, budget>>

\* except block: status failed with exit code -1 (deployment.py:245).
SupExcUpdate(r, ok) ==
    /\ tasks[r].pc = "exc_update"
    /\ store' = UpdateDeploymentStatus(store, tasks[r].session, "failed", Some(-1), ok)
    /\ tasks' = [tasks EXCEPT ![r].pc = "exc_publish"]
    /\ journal' = Journal(r, UpdateEntries(store, tasks[r].session, "failed", Some(-1), ok))
    /\ resp' = None
    /\ UNCHANGED <<inventory, current_deployment_session, current_deployment_process,
                   handler, grants, child, published, sse, connects, ws, accepted,
                   tunnel, gen, active_connections, subscriptions, bundle, budget>>

\* except block: the error event is published, then the finally block clears
\* the slot and the process (deployment.py:246-255).
SupExcPublish(r, ok) ==
    /\ tasks[r].pc = "exc_publish"
    /\ sse' = StreamsAfter(tasks[r].session, ErrorEvent, ok)
    /\ ws' = SocketsAfter(tasks[r].session, ErrorEvent, ok)
    /\ current_deployment_session' = ReleaseSlot(tasks[r].session)
    /\ current_deployment_process' = None
    /\ tasks' = [tasks EXCEPT ![r] = DoneTask]
    /\ published' = Renumber(PublishedAfter(tasks[r].session, ok), tasks', sse', ws')
    /\ child' = [child EXCEPT ![r] = IF @ = NoChild THEN @ ELSE GoneChild]
    /\ journal' = Journal(r, PublishEntries(ErrorEvent, ok))
    /\ resp' = None
    /\ UNCHANGED <<inventory, store, handler, grants, connects, accepted, tunnel, gen,
                   active_connections, subscriptions, bundle, budget>>

\* The child process writes one line to its stdout/stderr pipe.
ChildWrite(r, line) ==
    /\ child[r].state = "running"
    /\ Len(child[r].out) < budget.lines
    /\ child' = [child EXCEPT ![r].out = Append(@, line), ![r].pipe = Append(@, line)]
    /\ resp' = None
    /\ UNCHANGED <<inventory, current_deployment_session, current_deployment_process,
                   store, handler, grants, tasks, published, sse, connects, ws,
                   accepted, tunnel, gen, active_connections, subscriptions, journal,
                   bundle, budget>>

\* The child process exits with a code; its end of the pipe closes.
ChildExit(r, code) ==
    /\ child[r].state = "running"
    /\ child' = [child EXCEPT ![r].state = "exited", ![r].code = Some(code)]
    /\ resp' = None
    /\ UNCHANGED <<inventory, current_deployment_session, current_deployment_process,
                   store, handler, grants, tasks, published, sse, connects, ws,
                   accepted, tunnel, gen, active_connections, subscriptions, journal,
                   bundle, budget>>

\* Time passes: every record's remaining TTL drops, and Redis removes a record
\* whose TTL ran out (SETEX ..., 3600, deployment.py:311-315).
Tick ==
    /\ \E s \in Sessions : store[s] # None
    /\ store' = [s \in Sessions |->
                    IF store[s] = None THEN None
                    ELSE IF store[s].ttl = 1 THEN None
                    ELSE [store[s] EXCEPT !.ttl = @ - 1]]
    /\ resp' = None
    /\ UNCHANGED <<inventory, current_deployment_session, current_deployment_process,
                   handler, grants, tasks, child, published, sse, connects, ws,
                   accepted, tunnel, gen, active_connections, subscriptions, journal,
                   bundle, budget>>

\* --------------------------------------------------------- status endpoint
\* The answer of GET .../deploy/status; ok = FALSE: the Redis GET raises and
\* the framework answers 500.
StatusResponse(s, ok) ==
    IF ok
    THEN [op |-> "status", session |-> s, code |-> GetDeploymentStatus(s).code,
          body |-> GetDeploymentStatus(s).body]
    ELSE [op |-> "status", session |-> s, code |-> 500, body |-> None]

\* Mutant of StatusRequest: the read renews the record's expiry.
StatusRequestRenewsTtl(s, ok) ==
    /\ resp' = StatusResponse(s, ok)
    /\ store' = IF store[s] = None THEN store
                ELSE [store EXCEPT ![s].ttl = TtlTicks + 1]
    /\ UNCHANGED <<inventory, current_deployment_session, current_deployment_process,
                   handler, grants, tasks, child, published, sse, connects, ws,
                   accepted, tunnel, gen, active_connections, subscriptions, journal,
                   bundle, budget>>

\* get_deployment_status (deployment.py:169-181).
StatusRequest(s, ok) ==
    /\ resp' = StatusResponse(s, ok)
    /\ UNCHANGED <<inventory, current_deployment_session, current_deployment_process,
                   store, handler, grants, tasks, child, published, sse, connects, ws,
                   accepted, tunnel, gen, active_connections, subscriptions, journal,
                   bundle, budget>>

\* ------------------------------------------------------------ SSE adapter
\* Mutant of Unsubscribe: the consumer ends without unsubscribing.
UnsubscribeSkipped(subs, x) == subs

\* pubsub.unsubscribe() and close() in the finally block of a consumer
\* (deployment.py:152-157, websocket_deployment.py:172-177): the consumer's
\* subscription is gone; without a subscription (pubsub unbound or never
\* subscribed) the call changes nothing and its error is swallowed.
Unsubscribe(subs, x) == subs \ {x}

\* What event_generator does with one message (deployment.py:131-145):
\* json.loads raises JSONDecodeError or event_data['data'] raises KeyError
\* ("drop": logged, the loop continues); event_data.get raises AttributeError
\* on a value that is not a dict ("error": the outer except yields an error
\* frame and the generator ends); else the frame is yielded.
SseOutcome(ev) ==
    IF Form(ev) = "text" THEN "drop"
    ELSE IF Form(ev) = "value" THEN "error"
    ELSE IF ~HasData(ev) THEN "drop"
    ELSE "frame"
\* The frame of the outer except block (deployment.py:151).
SseErrorFrame == [event |-> "error", data |-> [error |-> "exception"], seq |-> 0]

\* The frame event_generator yields for a bus payload (deployment.py:132-136).
Frame(ev) == [event |-> ev.event_type, data |-> ev.data, seq |-> ev.seq]
ConnectedFrame(s) == [event |-> "connected", data |-> [session_id |-> s], seq |-> 0]

\* Mutant of SubscribeBacklog: the channel retains its last event and hands
\* it to a new subscriber.
SubscribeBacklogRetained(s) ==
    IF published[s] > 0
    THEN <<[event_type |-> "log", data |-> [message |-> <<"a">>],
            seq |-> published[s]]>>
    ELSE <<>>

\* What a new subscription starts with: Redis pub/sub keeps no history.
SubscribeBacklog(s) == <<>>

\* The payload ends the stream (deployment.py:139).
Terminal(ev) ==
    /\ ev.event_type = "status"
    /\ "status" \in DOMAIN ev.data
    /\ ev.data.status \in {"completed", "failed"}

\* GET .../logs/stream: event_generator starts and yields the connected frame
\* (deployment.py:117-120).
SseConnect(c, s) ==
    /\ sse[c].pc = "idle"
    /\ connects < budget.connects
    /\ connects' = connects + 1
    /\ sse' = [sse EXCEPT ![c] =
                [pc |-> "connected", id |-> connects + 1, session |-> s,
                 queue |-> <<>>, frames |-> <<ConnectedFrame(s)>>,
                 subAt |-> 0, connAt |-> published[s]]]
    /\ resp' = None
    /\ UNCHANGED <<inventory, current_deployment_session, current_deployment_process,
                   store, handler, grants, tasks, child, published, ws, accepted,
                   tunnel, gen, active_connections, subscriptions, journal, bundle,
                   budget>>

\* event_generator resumes after the first frame and subscribes to the
\* session's channel (deployment.py:123-124).
SseSubscribe(c) ==
    /\ sse[c].pc = "connected"
    /\ sse' = [sse EXCEPT ![c].pc = "listening",
                          ![c].queue = SubscribeBacklog(sse[c].session),
                          ![c].subAt = published[sse[c].session]]
    /\ subscriptions' = subscriptions \cup {c}
    /\ resp' = None
    /\ UNCHANGED <<inventory, current_deployment_session, current_deployment_process,
                   store, handler, grants, tasks, child, published, connects, ws,
                   accepted, tunnel, gen, active_connections, journal, bundle, budget>>

\* Mutant of StreamAfterFrame: the generator goes on listening whatever it
\* forwarded.
StreamAfterFrameKeepsListening(ev) == "listening"

\* Where event_generator stands once it has yielded the frame of a payload:
\* on a terminal status event it will break out of the loop when it is
\* resumed, else it waits for the next message (deployment.py:136-141).
StreamAfterFrame(ev) == IF Terminal(ev) THEN "closing" ELSE "listening"

\* One message of the subscription is forwarded as a frame
\* (deployment.py:126-136). What the subscription holds of a stream that is
\* about to break is never consumed, so it is dropped here.
SseForward(c) ==
    /\ sse[c].pc = "listening"
    /\ sse[c].queue # <<>>
    /\ LET ev == Head(sse[c].queue) IN
        sse' = [sse EXCEPT ![c] =
                    IF SseOutcome(ev) = "drop" THEN [@ EXCEPT !.queue = Tail(@)]
                    ELSE IF SseOutcome(ev) = "error"
                    THEN [@ EXCEPT !.pc = "failed",
                                   !.frames = Append(@, SseErrorFrame),
                                   !.queue = <<>>]
                    ELSE [@ EXCEPT !.pc = StreamAfterFrame(ev),
                                   !.frames = Append(@, Frame(ev)),
                                   !.queue = IF StreamAfterFrame(ev) = "closing"
                                             THEN <<>> ELSE Tail(@)]]
    /\ resp' = None
    /\ UNCHANGED <<inventory, current_deployment_session, current_deployment_process,
                   store, handler, grants, tasks, child, published, connects, ws,
                   accepted, tunnel, gen, active_connections, subscriptions, journal,
                   bundle, budget>>

\* event_generator is resumed after the terminal frame: it breaks, and its
\* finally block unsubscribes and closes the subscription; the response ends
\* (deployment.py:139-141, 152-157).
SseClose(c) ==
    /\ sse[c].pc \in {"closing", "failed"}
    /\ sse' = [sse EXCEPT ![c] = NoStream]
    /\ published' = Renumber(published, tasks, sse', ws)
    /\ subscriptions' = Unsubscribe(subscriptions, c)
    /\ resp' = None
    /\ UNCHANGED <<inventory, current_deployment_session, current_deployment_process,
                   store, handler, grants, tasks, child, connects, ws, accepted,
                   tunnel, gen, active_connections, journal, bundle, budget>>

\* Mutant of SseDisconnect: cancelling the stream also kills the child
\* process of the session's run.
SseDisconnectKillsChild(c) ==
    /\ sse[c].pc \in {"connected", "listening", "closing", "failed"}
    /\ sse' = [sse EXCEPT ![c] = NoStream]
    /\ child' = [r \in RunIds |->
                    IF child[r].state = "running" /\ tasks[r].session = sse[c].session
                    THEN [child[r] EXCEPT !.state = "exited", !.code = Some(2)]
                    ELSE child[r]]
    /\ published' = Renumber(published, tasks, sse', ws)
    /\ subscriptions' = Unsubscribe(subscriptions, c)
    /\ resp' = None
    /\ UNCHANGED <<inventory, current_deployment_session, current_deployment_process,
                   store, handler, grants, tasks, connects, ws, accepted, tunnel, gen,
                   active_connections, journal, bundle, budget>>

\* The client goes away: the generator is cancelled and its finally block
\* unsubscribes (deployment.py:147-157).
SseDisconnect(c) ==
    /\ sse[c].pc \in {"connected", "listening", "closing", "failed"}
    /\ sse' = [sse EXCEPT ![c] = NoStream]
    /\ published' = Renumber(published, tasks, sse', ws)
    /\ subscriptions' = Unsubscribe(subscriptions, c)
    /\ resp' = None
    /\ UNCHANGED <<inventory, current_deployment_session, current_deployment_process,
                   store, handler, grants, tasks, child, connects, ws, accepted,
                   tunnel, gen, active_connections, journal, bundle, budget>>

\* ------------------------------------------------------- WebSocket hub
\* Text frames a client sends: JSON objects with a type, a text that is not
\* JSON, and a JSON value that is not an object.
Inbound ==
    {[kind |-> "object", type |-> "ping", command |-> NULL],
     [kind |-> "object", type |-> "get_status", command |-> NULL],
     [kind |-> "object", type |-> "command", command |-> "cancel"],
     [kind |-> "object", type |-> "bogus", command |-> NULL],
     [kind |-> "text", type |-> NULL, command |-> NULL],
     [kind |-> "value", type |-> NULL, command |-> NULL]}

\* More command frames: other command values, and none at all
\* (message_data.get('command') is None).
InboundCommands ==
    {[kind |-> "object", type |-> "command", command |-> c] :
        c \in {"cancel", "stop", NULL}}

\* The frame subscribe_redis_logs sends for a bus payload
\* (websocket_deployment.py:149-156).
WsFrame(s, ev) ==
    [type |-> ev.event_type, session_id |-> s, data |-> ev.data, seq |-> ev.seq]
\* What subscribe_redis_logs does with one message
\* (websocket_deployment.py:145-166): json.loads raises JSONDecodeError
\* ("drop": logged, the loop continues); event_data.get raises AttributeError
\* on a value that is not a dict ("error": the outer except ends the task);
\* else a frame is sent, with data {} for a dict without the data key.
WsOutcome(ev) ==
    IF Form(ev) = "text" THEN "drop"
    ELSE IF Form(ev) = "value" THEN "error"
    ELSE "frame"
\* Frames the handlers send on their own; seq 0: not an event of the channel.
WsOwnFrame(s, type, data) ==
    [type |-> type, session_id |-> s, data |-> data, seq |-> 0]

\* handle_client_message: the frame sent back for a decoded JSON object;
\* ok = FALSE: the Redis GET of get_status raises.
HandleClientMessage(s, m, ok) ==
    IF m.type = "ping" THEN WsOwnFrame(s, "pong", None)
    ELSE IF m.type = "get_status"
    THEN IF ok /\ store[s] # None
         THEN WsOwnFrame(s, "status", GetDeploymentStatus(s).body)
         ELSE WsOwnFrame(s, "error", None)
    ELSE IF m.type = "command"
    THEN WsOwnFrame(s, "command_received", [command |-> m.command])
    ELSE WsOwnFrame(s, "error", None)

\* What the receive loop of websocket_deployment_logs does with one text
\* frame: json.loads raises JSONDecodeError ("text": an error frame is sent),
\* the decoded value has no .get ("value": AttributeError leaves the loop
\* through 'except Exception'), or handle_client_message replies.
ReceiveOutcome(m) ==
    IF m.kind = "text" THEN "error_frame"
    ELSE IF m.kind = "value" THEN "raise"
    ELSE "reply"

\* ConnectionManager.connect: the session's set is created when the session
\* has no entry, and the connection is added to it
\* (websocket_deployment.py:33-36).
connect(reg, w, s) ==
    [k \in DOMAIN reg \cup {s} |->
        IF k = s THEN (IF s \in DOMAIN reg THEN reg[s] ELSE {}) \cup {w}
        ELSE reg[k]]

\* Mutant of disconnect: the connection is discarded, an empty set is left
\* in the registry.
disconnectKeepsEntry(reg, w, s) ==
    IF s \notin DOMAIN reg THEN reg ELSE [reg EXCEPT ![s] = @ \ {w}]

\* ConnectionManager.disconnect: the connection is discarded from the
\* session's set, and the entry is deleted when the set is left empty
\* (websocket_deployment.py:47-52).
disconnect(reg, w, s) ==
    IF s \notin DOMAIN reg THEN reg
    ELSE IF reg[s] \ {w} = {} THEN [k \in DOMAIN reg \ {s} |-> reg[k]]
    ELSE [reg EXCEPT ![s] = @ \ {w}]

\* The connections registered under the session: manager.active_connections[s],
\* none when the session has no entry.
ActiveConnections(s) ==
    IF s \in DOMAIN active_connections THEN active_connections[s] ELSE {}

\* The endpoint accepts a connection: manager.connect registers it and sends
\* the connected frame, and the subscription task is created
\* (websocket_deployment.py:101-106).
WsConnect(w, s) ==
    /\ ws[w].pc = "idle"
    /\ accepted < budget.sockets
    /\ accepted' = accepted + 1
    /\ ws' = [ws EXCEPT ![w] =
                [pc |-> "open", session |-> s, sub |-> "none", queue |-> <<>>,
                 frames |-> <<WsOwnFrame(s, "connected", None)>>,
                 inbox |-> <<>>, regAt |-> published[s]]]
    /\ active_connections' = connect(active_connections, w, s)
    /\ resp' = None
    /\ UNCHANGED <<inventory, current_deployment_session, current_deployment_process,
                   store, handler, grants, tasks, child, published, sse, connects,
                   tunnel, gen, subscriptions, journal, bundle, budget>>

\* subscribe_redis_logs starts and subscribes to the session's channel
\* (websocket_deployment.py:138-139).
WsSubscribe(w) ==
    /\ ws[w].pc = "open"
    /\ ws[w].sub = "none"
    /\ ws' = [ws EXCEPT ![w].sub = "subscribed"]
    /\ subscriptions' = subscriptions \cup {w}
    /\ resp' = None
    /\ UNCHANGED <<inventory, current_deployment_session, current_deployment_process,
                   store, handler, grants, tasks, child, published, sse, connects,
                   accepted, tunnel, gen, active_connections, journal, bundle, budget>>

\* subscribe_redis_logs forwards one message to its connection; after a
\* terminal status event it breaks and unsubscribes, the connection stays
\* registered (websocket_deployment.py:141-162, 172-177).
WsForward(w) ==
    /\ ws[w].pc = "open"
    /\ ws[w].sub = "subscribed"
    /\ ws[w].queue # <<>>
    /\ LET ev == Head(ws[w].queue)
           ends == WsOutcome(ev) = "error" \/ (WsOutcome(ev) = "frame" /\ Terminal(ev))
       IN  /\ ws' = [ws EXCEPT ![w] =
                    [@ EXCEPT !.frames = IF WsOutcome(ev) = "frame"
                                         THEN Append(@, WsFrame(ws[w].session, ev))
                                         ELSE @,
                              !.sub = IF ends THEN "ended" ELSE "subscribed",
                              !.queue = IF ends THEN <<>> ELSE Tail(@)]]
           /\ subscriptions' = IF ends THEN Unsubscribe(subscriptions, w)
                               ELSE subscriptions
    /\ resp' = None
    /\ UNCHANGED <<inventory, current_deployment_session, current_deployment_process,
                   store, handler, grants, tasks, child, published, sse, connects,
                   accepted, tunnel, gen, active_connections, journal, bundle, budget>>

\* Mutant of WsReceive: a command frame asking to cancel kills the child
\* process of the session's run.
WsReceiveCancels(w, m, ok) ==
    /\ ws[w].pc = "open"
    /\ \A v \in Sockets : Len(ws[v].inbox) < budget.inbound
    /\ ok \/ (ReceiveOutcome(m) = "reply" /\ m.type = "get_status")
    /\ ws' = [ws EXCEPT ![w] =
                IF ReceiveOutcome(m) = "raise"
                THEN [@ EXCEPT !.pc = "returned", !.inbox = Append(@, m),
                               !.sub = "ended", !.queue = <<>>]
                ELSE [@ EXCEPT !.inbox = Append(@, m),
                               !.frames = Append(@,
                                    IF ReceiveOutcome(m) = "error_frame"
                                    THEN WsOwnFrame(ws[w].session, "error", None)
                                    ELSE HandleClientMessage(ws[w].session, m, ok))]]
    /\ child' = [r \in RunIds |->
                    IF /\ m.type = "command" /\ m.command = "cancel"
                       /\ child[r].state = "running"
                       /\ tasks[r].session = ws[w].session
                    THEN [child[r] EXCEPT !.state = "exited", !.code = Some(2)]
                    ELSE child[r]]
    /\ active_connections' =
            IF ReceiveOutcome(m) = "raise"
            THEN disconnect(active_connections, w, ws[w].session)
            ELSE active_connections
    /\ subscriptions' =
            IF ReceiveOutcome(m) = "raise" THEN Unsubscribe(subscriptions, w)
            ELSE subscriptions
    /\ resp' = None
    /\ UNCHANGED <<inventory, current_deployment_session, current_deployment_process,
                   store, handler, grants, tasks, published, sse, connects, accepted,
                   tunnel, gen, journal, bundle, budget>>

\* The receive loop takes one text frame of the client
\* (websocket_deployment.py:111-132). When the loop is left through
\* 'except Exception' the finally block cancels the subscription task and
\* unregisters the connection, and the handler returns.
WsReceive(w, m, ok) ==
    /\ ws[w].pc = "open"
    /\ \A v \in Sockets : Len(ws[v].inbox) < budget.inbound
    /\ ok \/ (ReceiveOutcome(m) = "reply" /\ m.type = "get_status")
    /\ ws' = [ws EXCEPT ![w] =
                IF ReceiveOutcome(m) = "raise"
                THEN [@ EXCEPT !.pc = "returned", !.inbox = Append(@, m),
                               !.sub = "ended", !.queue = <<>>]
                ELSE [@ EXCEPT !.inbox = Append(@, m),
                               !.frames = Append(@,
                                    IF ReceiveOutcome(m) = "error_frame"
                                    THEN WsOwnFrame(ws[w].session, "error", None)
                                    ELSE HandleClientMessage(ws[w].session, m, ok))]]
    /\ active_connections' =
            IF ReceiveOutcome(m) = "raise"
            THEN disconnect(active_connections, w, ws[w].session)
            ELSE active_connections
    /\ subscriptions' =
            IF ReceiveOutcome(m) = "raise" THEN Unsubscribe(subscriptions, w)
            ELSE subscriptions
    /\ resp' = None
    /\ UNCHANGED <<inventory, current_deployment_session, current_deployment_process,
                   store, handler, grants, tasks, child, published, sse, connects,
                   accepted, tunnel, gen, journal, bundle, budget>>

\* The server closes the socket of a handler that returned.
WsClose(w) ==
    /\ ws[w].pc = "returned"
    /\ ws' = [ws EXCEPT ![w] = NoSocket]
    /\ published' = Renumber(published, tasks, sse, ws')
    /\ resp' = None
    /\ UNCHANGED <<inventory, current_deployment_session, current_deployment_process,
                   store, handler, grants, tasks, child, sse, connects, accepted,
                   tunnel, gen, active_connections, subscriptions, journal, bundle,
                   budget>>

\* The client closes the socket: receive_text raises WebSocketDisconnect, the
\* finally block cancels the subscription task and unregisters the connection
\* (websocket_deployment.py:125-132).
WsDisconnect(w) ==
    /\ ws[w].pc = "open"
    /\ ws' = [ws EXCEPT ![w] = NoSocket]
    /\ published' = Renumber(published, tasks, sse, ws')
    /\ active_connections' = disconnect(active_connections, w, ws[w].session)
    /\ subscriptions' = Unsubscribe(subscriptions, w)
    /\ resp' = None
    /\ UNCHANGED <<inventory, current_deployment_session, current_deployment_process,
                   store, handler, grants, tasks, child, sse, connects, accepted,
                   tunnel, gen, journal, bundle, budget>>

\* Another client of the Redis server publishes a payload on the session's
\* channel: it reaches the subscriptions of both adapters.
BusPublish(s, payload) ==
    /\ budget.foreign > 0
    /\ budget' = [budget EXCEPT !.foreign = @ - 1]
    /\ sse' = StreamsAfter(s, payload, TRUE)
    /\ ws' = SocketsAfter(s, payload, TRUE)
    /\ published' = Renumber(PublishedAfter(s, TRUE), tasks, sse', ws')
    /\ resp' = None
    /\ UNCHANGED <<inventory, current_deployment_session, current_deployment_process,
                   store, handler, grants, tasks, child, connects, accepted, tunnel,
                   gen, bundle, active_connections, subscriptions, journal>>

\* ------------------------------------------------ generation service
\* A step of the generation service: nothing of the deployment changes.
ServiceStep(new) ==
    /\ gen' = new
    /\ resp' = None
    /\ UNCHANGED <<inventory, current_deployment_session, current_deployment_process,
                   store, handler, grants, tasks, child, published, sse, connects, ws,
                   accepted, tunnel, active_connections, subscriptions, journal,
                   bundle, budget>>

\* generate_inventory calls _generate_inventory_ini with the request's
\* topology (kubespray_service.py:53).
InventoryCall(nodes) ==
    /\ gen.op = "none"
    /\ budget.calls > 0
    /\ ServiceStep([NoCall EXCEPT !.op = "inventory", !.topology = nodes])

\* _generate_inventory_ini returns the file's content.
InventoryReturn ==
    /\ gen.op = "inventory"
    /\ gen.ini = None
    /\ ServiceStep([gen EXCEPT !.ini = Some(GenerateInventoryIni(gen.topology))])

\* _generate_k8s_cluster_config calls _deep_merge with the base template
\* and the question set's override (kubespray_service.py:174).
MergeCall(base, override) ==
    /\ gen.op = "none"
    /\ budget.calls > 0
    /\ ServiceStep([NoCall EXCEPT !.op = "merge", !.base = base,
                                  !.override = override])

\* _deep_merge returns the merged document.
MergeReturn ==
    /\ gen.op = "merge"
    /\ gen.merged = None
    /\ ServiceStep([gen EXCEPT !.merged = Some(DeepMerge(gen.base, gen.override))])

\* generate_inventory calls _generate_k8s_cluster_config
\* (kubespray_service.py:74) with the files the templates directory and the
\* question set hold.
ConfigCall(base_file, question_set_id, override_file) ==
    /\ gen.op = "none"
    /\ budget.calls > 0
    /\ ServiceStep([NoCall EXCEPT !.op = "config", !.base_file = base_file,
                                  !.question_set_id = question_set_id,
                                  !.override_file = override_file])

\* _generate_k8s_cluster_config returns the cluster options.
ConfigReturn ==
    /\ gen.op = "config"
    /\ gen.config = None
    /\ ServiceStep([gen EXCEPT !.config =
            Some(GenerateK8sClusterConfig(gen.base_file, gen.question_set_id,
                                          gen.override_file))])

\* generate_inventory is called for a session (kubespray_service.py:27-32).
GenerateInventoryCall(s, question_set_id, fs) ==
    /\ gen.op = "none"
    /\ budget.calls > 0
    /\ ServiceStep([NoCall EXCEPT !.op = "generate", !.session = s,
                                  !.question_set_id = question_set_id,
                                  !.fs = Some(fs)])

\* generate_inventory returns (kubespray_service.py:93).
GenerateInventoryReturn ==
    /\ gen.op = "generate"
    /\ gen.returned = None
    /\ ServiceStep([gen EXCEPT !.returned =
            Some(GenerateInventoryFiles(gen.session, gen.question_set_id, gen.fs[1]))])

\* ----------------------------------------------------- WebSocket tunnel
\* websocket_deployment_logs_proxy of the backend (kubespray_proxy.py:380-436).
\* Text frames the client sends through the tunnel, and frames the upstream
\* hub endpoint sends.
ClientFrames == {"ping", "get_status"}
UpstreamFrames == {"pong", "log"}

\* A step of the tunnel: nothing of the deployment service changes.
TunnelStep(new) ==
    /\ tunnel' = new
    /\ resp' = None
    /\ UNCHANGED <<inventory, current_deployment_session, current_deployment_process,
                   store, handler, grants, tasks, child, published, sse, connects, ws,
                   accepted, gen, active_connections, subscriptions, journal, bundle,
                   budget>>

\* The proxy accepts the client's socket (kubespray_proxy.py:386).
TunnelAccept ==
    /\ tunnel.handler = "idle"
    /\ budget.relay > 0
    /\ TunnelStep([tunnel EXCEPT !.handler = "connecting", !.client = "open"])

\* websockets.connect succeeds; gather starts the two relay coroutines
\* (kubespray_proxy.py:396-422).
TunnelConnect ==
    /\ tunnel.handler = "connecting"
    /\ TunnelStep([tunnel EXCEPT !.handler = "relaying", !.upstream = "open",
                                 !.c2s.pc = "recv", !.s2c.pc = "recv"])

\* websockets.connect raises: the except block sends an error frame to the
\* client and the handler returns; the server closes the client's socket
\* (kubespray_proxy.py:424-436).
TunnelConnectFails ==
    /\ tunnel.handler = "connecting"
    /\ TunnelStep([tunnel EXCEPT
            !.handler = "done", !.client = "closed",
            !.toClient = IF tunnel.client = "open" THEN Append(@, "error") ELSE @])

\* The client sends a text frame.
ClientSend(f) ==
    /\ tunnel.client = "open"
    /\ tunnel.sentUp < budget.relay
    /\ TunnelStep([tunnel EXCEPT !.fromClient = Append(@, f), !.sentUp = @ + 1])

\* The client closes its socket.
ClientClose ==
    /\ tunnel.client = "open"
    /\ TunnelStep([tunnel EXCEPT !.client = "closed"])

\* The upstream endpoint sends a frame.
UpstreamSend(f) ==
    /\ tunnel.upstream = "open"
    /\ tunnel.sentDown < budget.relay
    /\ TunnelStep([tunnel EXCEPT !.fromUpstream = Append(@, f), !.sentDown = @ + 1])

\* The upstream endpoint closes the connection.
UpstreamClose ==
    /\ tunnel.upstream = "open"
    /\ tunnel.handler = "relaying"
    /\ TunnelStep([tunnel EXCEPT !.upstream = "closed"])

\* client_to_server: receive_text returns a frame (kubespray_proxy.py:403).
C2sReceive ==
    /\ tunnel.c2s.pc = "recv"
    /\ tunnel.fromClient # <<>>
    /\ TunnelStep([tunnel EXCEPT !.c2s = [pc |-> "send", held |-> Head(tunnel.fromClient)],
                                 !.fromClient = Tail(@)])

\* client_to_server: receive_text raises WebSocketDisconnect, the coroutine
\* returns (kubespray_proxy.py:405-406).
C2sDisconnected ==
    /\ tunnel.c2s.pc = "recv"
    /\ tunnel.fromClient = <<>>
    /\ tunnel.client = "closed"
    /\ TunnelStep([tunnel EXCEPT !.c2s = [pc |-> "done", held |-> NULL]])

\* client_to_server: kubespray_ws.send passes the frame on, or raises on a
\* closed upstream connection and the coroutine returns
\* (kubespray_proxy.py:404, 407-408).
C2sSend ==
    /\ tunnel.c2s.pc = "send"
    /\ TunnelStep(IF tunnel.upstream = "open"
                  THEN [tunnel EXCEPT !.toUpstream = Append(@, tunnel.c2s.held),
                                      !.c2s = [pc |-> "recv", held |-> NULL]]
                  ELSE [tunnel EXCEPT !.c2s = [pc |-> "done", held |-> NULL]])

\* server_to_client: the iteration over kubespray_ws yields a frame
\* (kubespray_proxy.py:412).
S2cReceive ==
    /\ tunnel.s2c.pc = "recv"
    /\ tunnel.fromUpstream # <<>>
    /\ TunnelStep([tunnel EXCEPT !.s2c = [pc |-> "send", held |-> Head(tunnel.fromUpstream)],
                                 !.fromUpstream = Tail(@)])

\* server_to_client: the upstream connection is closed, the iteration ends
\* and the coroutine returns (kubespray_proxy.py:412, 414-415).
S2cClosed ==
    /\ tunnel.s2c.pc = "recv"
    /\ tunnel.fromUpstream = <<>>
    /\ tunnel.upstream = "closed"
    /\ TunnelStep([tunnel EXCEPT !.s2c = [pc |-> "done", held |-> NULL]])

\* server_to_client: websocket.send_text passes the frame on, or raises on a
\* closed client socket and the coroutine returns
\* (kubespray_proxy.py:413-415).
S2cSend ==
    /\ tunnel.s2c.pc = "send"
    /\ TunnelStep(IF tunnel.client = "open"
                  THEN [tunnel EXCEPT !.toClient = Append(@, tunnel.s2c.held),
                                      !.s2c = [pc |-> "recv", held |-> NULL]]
                  ELSE [tunnel EXCEPT !.s2c = [pc |-> "done", held |-> NULL]])

\* asyncio.gather returns when both coroutines have returned
\* (kubespray_proxy.py:418-422).
GatherReturns == tunnel.c2s.pc = "done" /\ tunnel.s2c.pc = "done"

\* gather returned: 'async with' closes the upstream connection and the
\* handler returns; the server closes the client's socket
\* (kubespray_proxy.py:396, 418-436).
TunnelExit ==
    /\ tunnel.handler = "relaying"
    /\ GatherReturns
    /\ TunnelStep([tunnel EXCEPT !.handler = "done", !.upstream = "closed",
                                 !.client = "closed",
                                 !.c2s = [pc |-> "done", held |-> NULL],
                                 !.s2c = [pc |-> "done", held |-> NULL]])

\* What the proxy's own code does next.
TunnelNext ==
    \/ TunnelConnect
    \/ TunnelConnectFails
    \/ C2sReceive
    \/ C2sDisconnected
    \/ C2sSend
    \/ S2cReceive
    \/ S2cClosed
    \/ S2cSend
    \/ TunnelExit

\* The tunnel with its two peers.
NextTunnel ==
    \/ TunnelAccept
    \/ TunnelNext
    \/ \E f \in ClientFrames : ClientSend(f)
    \/ ClientClose
    \/ \E f \in UpstreamFrames : UpstreamSend(f)
    \/ UpstreamClose

\* One run after another: admitted requests, the Supervisor and the child
\* process.
NextSupervise ==
    \/ \E s \in Sessions : GenerateInventory(s)
    \/ \E s \in Sessions, p \in Playbooks : DeployGrant(s, p)
    \/ \E ok \in BOOLEAN : DeployReturn(ok)
    \/ \E r \in RunIds, ok \in BOOLEAN : SupUpdateRunning(r, ok)
    \/ \E r \in RunIds : SupSpawn(r)
    \/ \E r \in RunIds : SupSpawnFails(r)
    \/ \E r \in RunIds, ok \in BOOLEAN : SupReadLine(r, ok)
    \/ \E r \in RunIds : SupReadEof(r)
    \/ \E r \in RunIds : SupWait(r)
    \/ \E r \in RunIds, ok \in BOOLEAN : SupFinalUpdate(r, ok)
    \/ \E r \in RunIds, ok \in BOOLEAN : SupFinalPublish(r, ok)
    \/ \E r \in RunIds, ok \in BOOLEAN : SupExcUpdate(r, ok)
    \/ \E r \in RunIds, ok \in BOOLEAN : SupExcPublish(r, ok)
    \/ \E r \in RunIds, line \in RawLines : ChildWrite(r, line)
    \/ \E r \in RunIds, code \in ExitCodes : ChildExit(r, code)

\* A run while time passes: the records of the Status Store expire.
NextRun ==
    \/ NextSupervise
    \/ Tick

\* The deploy endpoint with its refusals.
NextDeploy ==
    \/ NextRun
    \/ \E s \in Sessions : DeployNotFound(s)
    \/ \E s \in Sessions : DeployConflict(s)

\* SpecJournal: the runs with what each Supervisor read, wrote and published
\* kept in its journal.
JournalBudget == [runs |-> 1, lines |-> MaxLines, connects |-> 0, sockets |-> 0,
                  inbound |-> 0, relay |-> 0, calls |-> 0, foreign |-> 0,
                  journal |-> 1]
InitJournal ==
    /\ InitState
    /\ budget = JournalBudget

SpecJournal == InitJournal /\ [][NextRun]_vars

\* A run and the SSE streams that watch it.
NextStream ==
    \/ NextSupervise
    \/ \E c \in Clients, s \in Sessions : SseConnect(c, s)
    \/ \E c \in Clients : SseSubscribe(c)
    \/ \E c \in Clients : SseForward(c)
    \/ \E c \in Clients : SseClose(c)
    \/ \E c \in Clients : SseDisconnect(c)

\* Spec: up to MaxRuns runs over the sessions, every deploy request answered;
\* a child writes at most one line and no stream is attached (lines and
\* streams touch neither the slot nor the store).
DeployBudget == [runs |-> MaxRuns, lines |-> 1, connects |-> 0, sockets |-> 0,
                 inbound |-> 0, relay |-> 0, calls |-> 0, foreign |-> 0,
                 journal |-> 0]
Init ==
    /\ InitState
    /\ budget = DeployBudget

Spec == Init /\ [][NextDeploy]_vars

\* SpecAbort: the deploy endpoint when a suspended handler may be cancelled.
NextAbort ==
    \/ NextDeploy
    \/ DeployAbort

SpecAbort == Init /\ [][NextAbort]_vars

\* SpecBundle: up to two generations over the sessions, each finding its own
\* sources and succeeding or failing at the cluster options.
NextBundle ==
    \E s \in Sessions, question_set_id \in QuestionSetIds, fs \in FileSystems,
       config_ok \in BOOLEAN :
            PostInventory(s, question_set_id, fs, config_ok)

BundleBudget == [runs |-> 0, lines |-> 0, connects |-> 0, sockets |-> 0,
                 inbound |-> 0, relay |-> 0, calls |-> 2, foreign |-> 0,
                 journal |-> 0]
InitBundle ==
    /\ InitState
    /\ budget = BundleBudget

SpecBundle == InitBundle /\ [][NextBundle]_vars

\* SpecRegenerate: the deploy endpoint and one run of at most one line while
\* bundles are generated again, from the sources without a question set.
PlainSources == {fs \in FileSystems : ~fs.addons /\ fs.network = None}
NextRegenerate ==
    \/ NextDeploy
    \/ \E s \in Sessions, fs \in PlainSources, config_ok \in BOOLEAN :
            PostInventory(s, None, fs, config_ok)

RegenerateBudget == [runs |-> 1, lines |-> 1, connects |-> 0, sockets |-> 0,
                     inbound |-> 0, relay |-> 0, calls |-> 2, foreign |-> 0,
                     journal |-> 0]
InitRegenerate ==
    /\ InitState
    /\ budget = RegenerateBudget

SpecRegenerate == InitRegenerate /\ [][NextRegenerate]_vars

\* SpecStream: one run of up to MaxLines lines, watched by SSE streams.
StreamBudget == [runs |-> 1, lines |-> MaxLines, connects |-> MaxConnects,
                 sockets |-> 0, inbound |-> 0, relay |-> 0, calls |-> 0,
                 foreign |-> 0, journal |-> 0]
InitStream ==
    /\ InitState
    /\ budget = StreamBudget

SpecStream == InitStream /\ [][NextStream]_vars

\* A run and the WebSocket connections of the hub endpoint.
NextHub ==
    \/ NextRun
    \/ \E w \in Sockets, s \in Sessions : WsConnect(w, s)
    \/ \E w \in Sockets : WsSubscribe(w)
    \/ \E w \in Sockets : WsForward(w)
    \/ \E w \in Sockets, m \in Inbound, ok \in BOOLEAN : WsReceive(w, m, ok)
    \/ \E w \in Sockets : WsClose(w)
    \/ \E w \in Sockets : WsDisconnect(w)

\* SpecRegistry: WebSocket connections come, send frames and go while no
\* deployment runs (nothing is published, so no forwarding task has
\* anything to forward).
NextRegistry ==
    \/ \E w \in Sockets, s \in Sessions : WsConnect(w, s)
    \/ \E w \in Sockets : WsSubscribe(w)
    \/ \E w \in Sockets, m \in Inbound, ok \in BOOLEAN : WsReceive(w, m, ok)
    \/ \E w \in Sockets : WsClose(w)
    \/ \E w \in Sockets : WsDisconnect(w)

RegistryBudget == [runs |-> 0, lines |-> 0, connects |-> 0, sockets |-> MaxSockets,
                   inbound |-> MaxInbound, relay |-> 0, calls |-> 0, foreign |-> 0,
                   journal |-> 0]
InitRegistry ==
    /\ InitState
    /\ budget = RegistryBudget

SpecRegistry == InitRegistry /\ [][NextRegistry]_vars

\* SpecHub: one run of one line, watched by WebSocket connections that also
\* send frames.
HubBudget == [runs |-> 1, lines |-> 1, connects |-> 0, sockets |-> MaxSockets,
              inbound |-> MaxInbound, relay |-> 0, calls |-> 0, foreign |-> 0,
              journal |-> 0]
InitHub ==
    /\ InitState
    /\ budget = HubBudget

SpecHub == InitHub /\ [][NextHub]_vars

\* A run and one WebSocket connection that sends frames of every kind.
NextFrames ==
    \/ NextRun
    \/ \E w \in Sockets, s \in Sessions : WsConnect(w, s)
    \/ \E w \in Sockets, m \in Inbound \cup InboundCommands, ok \in BOOLEAN :
            WsReceive(w, m, ok)
    \/ \E w \in Sockets : WsClose(w)
    \/ \E w \in Sockets : WsDisconnect(w)

\* SpecFrames: one run of one line and one connection that sends up to
\* MaxInbound frames.
FramesBudget == [runs |-> 1, lines |-> 1, connects |-> 0, sockets |-> 1,
                 inbound |-> MaxInbound, relay |-> 0, calls |-> 0, foreign |-> 0,
                 journal |-> 0]
InitFrames ==
    /\ InitState
    /\ budget = FramesBudget

SpecFrames == InitFrames /\ [][NextFrames]_vars

\* Runs and the status endpoint.
NextStatus ==
    \/ NextRun
    \/ \E s \in Sessions, ok \in BOOLEAN : StatusRequest(s, ok)

\* SpecStatus: up to MaxRuns runs of one line, polled through the status
\* endpoint.
InitStatus ==
    /\ InitState
    /\ budget = DeployBudget

SpecStatus == InitStatus /\ [][NextStatus]_vars

\* A run with an SSE stream and a WebSocket connection that come and go.
NextConsumers ==
    \/ NextRun
    \/ \E c \in Clients, s \in Sessions : SseConnect(c, s)
    \/ \E c \in Clients : SseSubscribe(c)
    \/ \E c \in Clients : SseForward(c)
    \/ \E c \in Clients : SseClose(c)
    \/ \E c \in Clients : SseDisconnect(c)
    \/ \E w \in Sockets, s \in Sessions : WsConnect(w, s)
    \/ \E w \in Sockets : WsSubscribe(w)
    \/ \E w \in Sockets : WsForward(w)
    \/ \E w \in Sockets : WsDisconnect(w)

\* SpecConsumers: one run of one line, one SSE connection and one WebSocket
\* connection.
ConsumersBudget == [runs |-> 1, lines |-> 1, connects |-> 1, sockets |-> 1,
                    inbound |-> 0, relay |-> 0, calls |-> 0, foreign |-> 0,
                    journal |-> 0]
InitConsumers ==
    /\ InitState
    /\ budget = ConsumersBudget

SpecConsumers == InitConsumers /\ [][NextConsumers]_vars

\* The consumers of a channel on which another client publishes as well:
\* the run of one session with its Redis calls answered (a PUBLISH may
\* fail), an SSE stream and a WebSocket connection of that session.
BusSession == "A"
NextBus ==
    \/ GenerateInventory(BusSession)
    \/ \E p \in Playbooks : DeployGrant(BusSession, p)
    \/ DeployReturn(TRUE)
    \/ \E r \in RunIds : SupUpdateRunning(r, TRUE)
    \/ \E r \in RunIds : SupSpawn(r)
    \/ \E r \in RunIds : SupSpawnFails(r)
    \/ \E r \in RunIds, ok \in BOOLEAN : SupReadLine(r, ok)
    \/ \E r \in RunIds : SupReadEof(r)
    \/ \E r \in RunIds : SupWait(r)
    \/ \E r \in RunIds : SupFinalUpdate(r, TRUE)
    \/ \E r \in RunIds, ok \in BOOLEAN : SupFinalPublish(r, ok)
    \/ \E r \in RunIds : SupExcUpdate(r, TRUE)
    \/ \E r \in RunIds, ok \in BOOLEAN : SupExcPublish(r, ok)
    \/ \E r \in RunIds, line \in RawLines : ChildWrite(r, line)
    \/ \E r \in RunIds, code \in ExitCodes : ChildExit(r, code)
    \/ \E c \in Clients : SseConnect(c, BusSession)
    \/ \E c \in Clients : SseSubscribe(c)
    \/ \E c \in Clients : SseForward(c)
    \/ \E c \in Clients : SseClose(c)
    \/ \E c \in Clients : SseDisconnect(c)
    \/ \E w \in Sockets : WsConnect(w, BusSession)
    \/ \E w \in Sockets : WsSubscribe(w)
    \/ \E w \in Sockets : WsForward(w)
    \/ \E w \in Sockets : WsDisconnect(w)
    \/ \E payload \in ForeignPayloads : BusPublish(BusSession, payload)

\* SpecBus: one run of one line, one SSE connection, one WebSocket connection
\* and up to MaxForeign payloads of another publisher.
BusBudget == [runs |-> 1, lines |-> 1, connects |-> 1, sockets |-> 1, inbound |-> 0,
              relay |-> 0, calls |-> 0, foreign |-> MaxForeign, journal |-> 0]
InitBus ==
    /\ InitState
    /\ budget = BusBudget

SpecBus == InitBus /\ [][NextBus]_vars

\* SpecLifecycle: up to MaxRuns runs of one session, one after the other,
\* with the journal of each; the children write nothing.
NextLifecycle ==
    \/ GenerateInventory(BusSession)
    \/ \E p \in Playbooks : DeployGrant(BusSession, p)
    \/ \E ok \in BOOLEAN : DeployReturn(ok)
    \/ \E r \in RunIds, ok \in BOOLEAN : SupUpdateRunning(r, ok)
    \/ \E r \in RunIds : SupSpawn(r)
    \/ \E r \in RunIds : SupSpawnFails(r)
    \/ \E r \in RunIds : SupReadEof(r)
    \/ \E r \in RunIds : SupWait(r)
    \/ \E r \in RunIds, ok \in BOOLEAN : SupFinalUpdate(r, ok)
    \/ \E r \in RunIds, ok \in BOOLEAN : SupFinalPublish(r, ok)
    \/ \E r \in RunIds, ok \in BOOLEAN : SupExcUpdate(r, ok)
    \/ \E r \in RunIds, ok \in BOOLEAN : SupExcPublish(r, ok)
    \/ \E r \in RunIds, code \in ExitCodes : ChildExit(r, code)
    \/ Tick

LifecycleBudget == [runs |-> MaxRuns, lines |-> 0, connects |-> 0, sockets |-> 0,
                    inbound |-> 0, relay |-> 0, calls |-> 0, foreign |-> 0,
                    journal |-> 1]
InitLifecycle ==
    /\ InitState
    /\ budget = LifecycleBudget

SpecLifecycle == InitLifecycle /\ [][NextLifecycle]_vars

\* One call of the generation service.
NextInventory ==
    \/ \E nodes \in Topologies : InventoryCall(nodes)
    \/ InventoryReturn

\* SpecInventory: inventory.ini generated for one topology of up to MaxNodes
\* nodes.
ServiceBudget == [runs |-> 0, lines |-> 0, connects |-> 0, sockets |-> 0,
                  inbound |-> 0, relay |-> 0, calls |-> 1, foreign |-> 0,
                  journal |-> 0]
InitService ==
    /\ InitState
    /\ budget = ServiceBudget

SpecInventory == InitService /\ [][NextInventory]_vars

\* SpecMerge: one deep merge of two documents.
NextMerge ==
    \/ /\ gen.op = "none"
       /\ \E base \in Documents, override \in Documents : MergeCall(base, override)
    \/ MergeReturn

SpecMerge == InitService /\ [][NextMerge]_vars

\* SpecConfig: the cluster options generated once, for a base template and
\* an override file that exist or not.
Files == {None} \cup {Some(d) : d \in Documents}
NextConfig ==
    \/ /\ gen.op = "none"
       /\ \E base_file \in Files, question_set_id \in QuestionSetIds,
             override_file \in Files :
                ConfigCall(base_file, question_set_id, override_file)
    \/ ConfigReturn

SpecConfig == InitService /\ [][NextConfig]_vars

\* SpecGenerate: one bundle generated for a session.
NextGenerate ==
    \/ /\ gen.op = "none"
       /\ \E s \in Sessions, question_set_id \in QuestionSetIds, fs \in FileSystems :
                GenerateInventoryCall(s, question_set_id, fs)
    \/ GenerateInventoryReturn

SpecGenerate == InitService /\ [][NextGenerate]_vars

\* SpecTunnel: one tunnel, each side sending up to MaxRelay frames. Fairness:
\* asyncio runs the handler and its two coroutines whenever they can run;
\* nothing makes the client or the upstream endpoint send or close.
TunnelBudget == [runs |-> 0, lines |-> 0, connects |-> 0, sockets |-> 0,
                 inbound |-> 0, relay |-> MaxRelay, calls |-> 0, foreign |-> 0,
                 journal |-> 0]
InitTunnel ==
    /\ InitState
    /\ budget = TunnelBudget

SpecTunnel == InitTunnel /\ [][NextTunnel]_vars /\ WF_vars(TunnelNext)

\* Fairness: asyncio runs every task that can run. The deploy handler resumes
\* after its Redis call and each Supervisor task takes its next step; nothing
\* makes the child process exit.
SupNext(r) ==
    \/ \E ok \in BOOLEAN : SupUpdateRunning(r, ok)
    \/ SupSpawn(r)
    \/ SupSpawnFails(r)
    \/ \E ok \in BOOLEAN : SupReadLine(r, ok)
    \/ SupReadEof(r)
    \/ SupWait(r)
    \/ \E ok \in BOOLEAN : SupFinalUpdate(r, ok)
    \/ \E ok \in BOOLEAN : SupFinalPublish(r, ok)
    \/ \E ok \in BOOLEAN : SupExcUpdate(r, ok)
    \/ \E ok \in BOOLEAN : SupExcPublish(r, ok)

SpecFair ==
    /\ Spec
    /\ WF_vars(\E ok \in BOOLEAN : DeployReturn(ok))
    /\ \A r \in RunIds : WF_vars(SupNext(r))

\* SpecWatch: one run of one line watched by one SSE stream, under the
\* fairness of SpecFair and with the stream's generator resumed whenever it
\* can go on (its subscription answered, a message waiting, or the loop
\* left); nothing makes the client disconnect.
WatchBudget == [runs |-> 1, lines |-> 1, connects |-> 1, sockets |-> 0,
                inbound |-> 0, relay |-> 0, calls |-> 0, foreign |-> 0,
                journal |-> 0]
InitWatch ==
    /\ InitState
    /\ budget = WatchBudget

SseNext(c) ==
    \/ SseSubscribe(c)
    \/ SseForward(c)
    \/ SseClose(c)

SpecWatch ==
    /\ InitWatch /\ [][NextStream]_vars
    /\ WF_vars(\E ok \in BOOLEAN : DeployReturn(ok))
    /\ \A r \in RunIds : WF_vars(SupNext(r))
    /\ \A c \in Clients : WF_vars(SseNext(c))

\* ------------------------------------------------------------ properties
Terminals == {"completed", "failed"}
\* The session's record says a deployment is under way.
Active(s) == store[s] # None /\ store[s].status \in {"started", "running"}
\* The runs that were granted and have not returned: the suspended handler's
\* and those of the live Supervisor tasks.
LiveTasks == {r \in RunIds : tasks[r].pc \notin {"none", "done"}}
LiveChildren == {r \in RunIds : child[r].state \in {"running", "exited"}}
PendingRuns == IF handler = None THEN {} ELSE {handler.run}
\* This step answered a deploy request with the code.
Answered(code) == resp' # None /\ resp'.op = "deploy" /\ resp'.code = code

\* C1: in every reachable state at most one session's record in the Status
\* Store has status started or running.
C1_AtMostOneActiveRecord == Cardinality({s \in Sessions : Active(s)}) <= 1

\* C2: the slot is checked and set in one step, so at any instant at most one
\* granted run exists (suspended handler or Supervisor task), at most one
\* child process exists, and the slot names the session of that run.
C2_OneRunAtATime ==
    /\ Cardinality(LiveTasks \cup PendingRuns) <= 1
    /\ Cardinality(LiveChildren) <= 1
    /\ LiveChildren \subseteq LiveTasks
    /\ \A r \in LiveTasks : current_deployment_session = tasks[r].session
    /\ handler # None => current_deployment_session = handler.session

\* C2 witness: while a Supervisor task and its child are live, a second
\* deploy request has just been refused.
C2_Witness ==
    /\ LiveTasks # {} /\ LiveChildren # {}
    /\ resp # None /\ resp.code = 409

\* C3: a deploy request refused with 409 changes nothing: not the slot, not
\* the store (the holder's record stays, none is written for the requester),
\* and no task or child process appears.
C3_DeniedChangesNothing ==
    [][Answered(409) =>
        /\ current_deployment_session # NULL
        /\ UNCHANGED <<current_deployment_session, current_deployment_process,
                       store, handler, grants, tasks, child, published>>]_vars

\* C3 witness: session B was just refused while A holds the slot and A's record
\* says started or running; B has no record.
C3_Witness ==
    /\ resp # None /\ resp.code = 409 /\ resp.session = "B"
    /\ current_deployment_session = "A"
    /\ Active("A")
    /\ store["B"] = None

\* The latest granted run was session a's and left a terminal record.
LatestRunTerminal(a) ==
    /\ grants > 0
    /\ store[a] # None
    /\ store[a].status \in Terminals
    /\ store[a].started_at = grants

\* C4 (as claimed): once A's record is terminal and no run was granted since,
\* a deploy request for another session B with an inventory is not refused
\* with 409.
C4_GrantedOnceTerminal ==
    [][\A a \in Sessions :
        (LatestRunTerminal(a) /\ Answered(409)) => resp'.session = a]_vars

\* C4 (amended): once A's Supervisor has returned, leaving a terminal record,
\* and no run was granted since, a deploy request for another session B with
\* an inventory is admitted.
C4_GrantedOnceReleased ==
    \A a \in Sessions :
        (LatestRunTerminal(a) /\ tasks[grants].pc = "done") =>
            \A b \in inventory \ {a} : Admission(b) = 200

\* C4 witness: A's run ended with a terminal record and B was then granted.
C4_Witness ==
    /\ store["A"] # None /\ store["A"].status \in Terminals
    /\ store["A"].started_at = 1
    /\ grants = 2
    /\ current_deployment_session = "B"
    /\ tasks[2].session = "B"

\* The ways a run comes to its end: the child process has exited, the spawn
\* raised, or reading the output raised (the reader stopped while the child
\* is still running).
ChildExited(r) == r \in LiveTasks /\ child[r].state = "exited"
SpawnRaised(r) == tasks[r].pc = "exc_update"
ReadRaised(r) == tasks[r].pc = "wait" /\ child[r].state = "running"

\* C5: after the child exits (with 0 or not), after the spawn raised and after
\* reading raised, the slot is eventually empty (so a later deploy request
\* can be granted).
C5_SlotReleasedOnEveryExitPath ==
    \A r \in RunIds :
        (ChildExited(r) \/ SpawnRaised(r) \/ ReadRaised(r))
            ~> (current_deployment_session = NULL)

\* The status endpoint answers 200 for the session with the record of run r
\* (started_at tells the runs of a session apart), this status and exit code,
\* and completed_at set.
StatusShows(s, r, status, code) ==
    /\ GetDeploymentStatus(s).code = 200
    /\ GetDeploymentStatus(s).body.started_at = r
    /\ GetDeploymentStatus(s).body.status = status
    /\ GetDeploymentStatus(s).body.exit_code = Some(code)
    /\ GetDeploymentStatus(s).body.completed_at # NULL

\* C6: once the child of a granted run has exited with code k, the status
\* endpoint eventually returns completed (k = 0) or failed (k # 0) with
\* exit_code = k and completed_at set.
C6_ExitCodeReachesStatus ==
    \A r \in RunIds, s \in Sessions, k \in ExitCodes :
        (ChildExited(r) /\ tasks[r].session = s /\ child[r].code = Some(k))
            ~> StatusShows(s, r, FinalStatus(k), k)

\* A line the reader took from the pipe made readline or decode raise.
ReadException(r) ==
    \E i \in 1..(Len(child[r].out) - Len(child[r].pipe)) :
        ReadOutcome(child[r].out[i]) = "raise"

\* C7: when reading the output raised, control is in the except block, the
\* one that writes failed with exit code -1 and publishes the error event,
\* until the run is over.
C7_ExceptionForcesFailed ==
    \A r \in RunIds :
        ReadException(r) => tasks[r].pc \in {"exc_update", "exc_publish"}

\* What a stream's client was sent after the connected frame, followed by
\* what its subscription still holds, as frames.
RECURSIVE FramesOf(_)
FramesOf(q) == IF q = <<>> THEN <<>> ELSE <<Frame(Head(q))>> \o FramesOf(Tail(q))
Received(c) == Tail(sse[c].frames) \o FramesOf(sse[c].queue)
IsLog(f) == f.event = "log"
ReceivedLogs(c) ==
    LET logs == SelectSeq(Received(c), IsLog)
    IN  [i \in 1..Len(logs) |-> logs[i].data.message]

\* The non-empty lines the child of the run wrote, in order, without their
\* trailing whitespace.
NonEmpty(l) == l # <<>>
EmittedLines(r) ==
    SelectSeq([i \in 1..Len(child[r].out) |-> rstrip(child[r].out[i])], NonEmpty)

\* The reader of the run is through with the output.
ReaderDone(r) == tasks[r].pc \in {"final_update", "final_publish"}
\* The stream subscribed to the run's channel before the run's first line
\* was published and is still attached.
SubscribedBeforeRun(c, r) ==
    /\ Subscribed(c, tasks[r].session)
    /\ sse[c].id \in tasks[r].early

\* C8: when the child has exited and its output was read, a subscriber that
\* was subscribed before the first line was published has received exactly
\* the child's non-empty lines as log events, in order.
C8_SubscriberReceivesEveryLine ==
    \A r \in RunIds, c \in Clients :
        (ReaderDone(r) /\ SubscribedBeforeRun(c, r)) =>
            ReceivedLogs(c) = EmittedLines(r)

\* C9: what a subscriber receives is a contiguous part of the channel's
\* published sequence that starts right after its subscription: nothing
\* published before it subscribed, no gap, no repeat.
C9_NoHistoryContiguous ==
    \A c \in Clients :
        sse[c].pc = "listening" =>
            \A i \in 1..Len(Received(c)) : Received(c)[i].seq = sse[c].subAt + i

\* C9 witness: a stream that subscribed after an event had been published has
\* been sent a later event.
C9_Witness ==
    \E c \in Clients :
        /\ sse[c].pc = "listening"
        /\ sse[c].subAt > 0
        /\ Len(sse[c].frames) > 1

\* C10: every event published on the channel after a stream's connected frame
\* was emitted reaches the stream, to be forwarded as a frame of the event's
\* type.
C10_NothingLostAfterConnected ==
    \A c \in Clients :
        sse[c].pc \in {"connected", "listening"} =>
            \A n \in (sse[c].connAt + 1)..published[sse[c].session] :
                \E i \in 1..Len(Received(c)) :
                    /\ Received(c)[i].seq = n
                    /\ Received(c)[i].event \in {"log", "status", "error"}

\* The frame of a status event whose status is completed or failed.
TerminalFrame(f) == f.event = "status" /\ f.data.status \in Terminals

\* C11: a terminal status frame is the last frame of its stream: it was
\* forwarded, the stream that forwarded it holds nothing more to forward, and
\* the only thing that stream does next is to end, which unsubscribes it.
C11_TerminalFrameEndsStream ==
    /\ [](\A c \in Clients :
            /\ \A i \in 1..Len(sse[c].frames) :
                TerminalFrame(sse[c].frames[i]) =>
                    i = Len(sse[c].frames) /\ sse[c].pc = "closing"
            /\ sse[c].pc = "closing" =>
                /\ TerminalFrame(sse[c].frames[Len(sse[c].frames)])
                /\ sse[c].queue = <<>>)
    /\ [][\A c \in Clients :
            sse[c].pc = "closing" =>
                \/ sse'[c] = sse[c]
                \/ sse'[c] = NoStream /\ ~Subscribed(c, sse[c].session)']_vars

\* C11 witness: a stream has forwarded a log frame and then the terminal
\* status frame of the run.
C11_Witness ==
    \E c \in Clients :
        /\ sse[c].pc = "closing"
        /\ Len(sse[c].frames) >= 3
        /\ sse[c].frames[2].event = "log"

\* The seq of every channel event a connection was sent or still holds in its
\* subscription, in order.
WsReceivedSeqs(w) ==
    LET sent == SelectSeq(ws[w].frames, LAMBDA f : f.seq > 0)
    IN  [i \in 1..Len(sent) |-> sent[i].seq] \o
        [i \in 1..Len(ws[w].queue) |-> ws[w].queue[i].seq]

\* C12: a registered connection gets every event published on its session's
\* channel since it was registered exactly once, and no event of any other
\* channel.
C12_HubDeliversExactlyOnce ==
    \A w \in Sockets :
        ws[w].pc = "open" =>
            LET got == WsReceivedSeqs(w)
                due == (ws[w].regAt + 1)..published[ws[w].session]
            IN  /\ \A n \in due : Cardinality({i \in 1..Len(got) : got[i] = n}) = 1
                /\ \A i \in 1..Len(got) : got[i] \in due

\* C13: once the client side or the upstream side of a relaying tunnel has
\* closed, both relay coroutines end, the upstream connection is closed and
\* the handler returns.
C13_TunnelTornDownTogether ==
    (tunnel.handler = "relaying" /\ (tunnel.client = "closed" \/ tunnel.upstream = "closed"))
        ~> (/\ tunnel.handler = "done"
            /\ tunnel.upstream = "closed"
            /\ tunnel.c2s.pc = "done"
            /\ tunnel.s2c.pc = "done")

\* This step ended an SSE stream, or the handler of a WebSocket connection.
StreamEnds(c) == sse[c].pc # "idle" /\ sse'[c] = NoStream
SocketEnds(w) == ws[w].pc = "open" /\ ws'[w].pc # "open"

\* C14: the step that ends an SSE stream or a WebSocket connection changes
\* neither the child processes, the Supervisor tasks, the slot nor the Status
\* Store, and leaves every other consumer as it was, subscription included.
C14_ClosingConsumerLeavesRun ==
    [][/\ (\E c \in Clients : StreamEnds(c)) \/ (\E w \in Sockets : SocketEnds(w)) =>
            UNCHANGED <<child, tasks, current_deployment_session,
                        current_deployment_process, store, handler, inventory>>
       /\ \A c \in Clients : StreamEnds(c) =>
            /\ ws' = ws
            /\ \A d \in Clients \ {c} : sse'[d] = sse[d]
       /\ \A w \in Sockets : SocketEnds(w) =>
            /\ sse' = sse
            /\ \A v \in Sockets \ {w} : ws'[v] = ws[v]]_vars

\* C14 witness: the SSE stream of a run was closed by its client; the child is
\* still running and the WebSocket connection of the same session has been
\* sent a log frame.
C14_Witness ==
    /\ connects = 1 /\ sse["c1"].pc = "idle"
    /\ \E r \in RunIds : child[r].state = "running" /\ tasks[r].pc = "read"
    /\ \E w \in Sockets :
        /\ ws[w].pc = "open" /\ ws[w].sub = "subscribed"
        /\ \E i \in 1..Len(ws[w].frames) : ws[w].frames[i].type = "log"

\* C15: a deploy request is answered 404 exactly when the session has no
\* inventory, whoever holds the slot (never 409 or a grant for such a
\* session), and that step changes neither the slot nor the store, and starts
\* nothing.
C15_MissingInventoryChangesNothing ==
    [][/\ Answered(404) =>
            /\ resp'.session \notin inventory
            /\ UNCHANGED <<current_deployment_session, current_deployment_process,
                           store, handler, grants, tasks, child, inventory>>
       /\ (resp' # None /\ resp'.op = "deploy" /\ resp'.session \notin inventory) =>
            resp'.code = 404]_vars

\* C15 witness: session B, which has no inventory, was just answered 404 while
\* session A holds the slot.
C15_Witness ==
    /\ resp # None /\ resp.op = "deploy" /\ resp.code = 404 /\ resp.session = "B"
    /\ "B" \notin inventory
    /\ current_deployment_session = "A"

\* C16: the handler of a granted request answers 200 with status started
\* when it resumes, with the Supervisor task just created and no child
\* spawned; no later step of the Supervisor or of the child answers a deploy
\* call.
C16_GrantedReturnsStarted ==
    [][/\ (handler # None /\ handler' = None) =>
            /\ Answered(200)
            /\ resp'.status = "started"
            /\ resp'.session = handler.session
            /\ tasks'[handler.run].pc = "created"
            /\ child'[handler.run] = NoChild
       /\ \A r \in RunIds :
            (tasks[r].pc # "none" /\ tasks'[r] # tasks[r]) \/ child'[r] # child[r]
                => resp' = None]_vars

\* C16 witness: a granted run ended in the except block (the spawn raised):
\* its record says failed with exit code -1.
C16_Witness ==
    \E s \in Sessions :
        /\ store[s] # None
        /\ store[s].status = "failed"
        /\ store[s].exit_code = Some(-1)

\* This step answered a status request for the session (a request whose Redis
\* GET was answered).
StatusAnswered(s) ==
    resp' # None /\ resp'.op = "status" /\ resp'.session = s /\ resp'.code # 500

\* C17: a status read changes nothing, neither the store (content and expiry)
\* nor the slot; it answers 404 exactly when the record is absent or expired
\* and else 200 with the record's content; a read that directly follows a
\* read of the same session gives the same answer.
C17_StatusReadIsPure ==
    [][\A s \in Sessions :
        /\ (resp' # None /\ resp'.op = "status") =>
            UNCHANGED <<store, current_deployment_session,
                        current_deployment_process, handler, tasks, child,
                        inventory, published>>
        /\ StatusAnswered(s) =>
            /\ store[s] = None <=> resp'.code = 404
            /\ store[s] # None =>
                /\ resp'.code = 200
                /\ \A f \in {"session_id", "status", "playbook", "started_at",
                             "completed_at", "exit_code"} :
                        resp'.body[f] = store[s][f]
            /\ (resp # None /\ resp.op = "status" /\ resp.session = s
                    /\ resp.code # 500) => resp' = resp]_vars

\* C17 witness: a status read answered 404 for a session whose run has ended:
\* its record has expired.
C17_Witness ==
    /\ resp # None /\ resp.op = "status" /\ resp.code = 404
    /\ \E r \in RunIds : tasks[r].pc = "done"
    /\ grants = 1
    /\ resp.session \in inventory

\* inventory.ini as Ansible reads it: the section headers of the file, and
\* the entries of a section (the first word of each line that is neither
\* empty nor a comment, up to the next header).
Headers == {"[all]", "[kube_control_plane]", "[etcd]", "[kube_node]",
            "[calico_rr]", "[k8s_cluster:children]"}
IsHeader(l) == l # <<>> /\ l[1] \in Headers
IsEntry(l) == l # <<>> /\ l[1] # "#" /\ ~IsHeader(l)
HeaderAt(ini, h) == CHOOSE i \in 1..Len(ini) : ini[i] = <<h>>
SectionEnd(ini, from) ==
    IF \E j \in (from + 1)..Len(ini) : IsHeader(ini[j])
    THEN (CHOOSE j \in (from + 1)..Len(ini) :
            IsHeader(ini[j]) /\ \A k \in (from + 1)..(j - 1) : ~IsHeader(ini[k])) - 1
    ELSE Len(ini)
Section(ini, h) ==
    LET from == HeaderAt(ini, h)
        body == SelectSeq(SubSeq(ini, from + 1, SectionEnd(ini, from)), IsEntry)
    IN  [i \in 1..Len(body) |-> body[i][1]]
Names(nodes) == [i \in 1..Len(nodes) |-> nodes[i].name]

\* C18: in the generated inventory every header occurs once; [all] and
\* [kube_node] list every node, [kube_control_plane] exactly the nodes with
\* role master, [etcd] the same as [kube_control_plane], [calico_rr] nothing,
\* and [k8s_cluster:children] the three groups; all in input order.
C18_InventoryGroups ==
    gen.ini # None =>
        LET ini == gen.ini[1]
            nodes == gen.topology
        IN  /\ \A h \in Headers : Cardinality({i \in 1..Len(ini) : ini[i] = <<h>>}) = 1
            /\ Section(ini, "[all]") = Names(nodes)
            /\ Section(ini, "[kube_node]") = Names(nodes)
            /\ Section(ini, "[kube_control_plane]") = Names(SelectSeq(nodes, IsMaster))
            /\ Section(ini, "[etcd]") = Section(ini, "[kube_control_plane]")
            /\ Section(ini, "[calico_rr]") = <<>>
            /\ Section(ini, "[k8s_cluster:children]")
                    = <<"kube_control_plane", "kube_node", "calico_rr">>

\* C18 witness: an inventory was generated for a master followed by a worker.
C18_Witness ==
    /\ gen.ini # None
    /\ Len(gen.topology) = 2
    /\ gen.topology[1].role = "master" /\ gen.topology[2].role = "worker"
    /\ Section(gen.ini[1], "[kube_control_plane]") = <<gen.topology[1].name>>

\* m is the deep merge of b and o: it has the keys of both; a key only in b
\* keeps b's value; a key of o whose values in b and o are both dicts holds
\* their deep merge; any other key of o holds o's value.
RECURSIVE IsDeepMerge(_, _, _)
IsDeepMerge(m, b, o) ==
    /\ DOMAIN m = DOMAIN b \cup DOMAIN o
    /\ \A k \in DOMAIN b \ DOMAIN o : m[k] = b[k]
    /\ \A k \in DOMAIN o :
        IF k \in DOMAIN b /\ b[k].t = "map" /\ o[k].t = "map"
        THEN m[k].t = "map" /\ IsDeepMerge(m[k].v, b[k].v, o[k].v)
        ELSE m[k] = o[k]

ExampleBase == [k \in {"a"} |-> MapValue([x |-> IntValue(1), y |-> IntValue(2)])]
ExampleOverride == [k \in {"a"} |-> MapValue([k2 \in {"y"} |-> IntValue(9)])]
ExampleMerged == [k \in {"a"} |-> MapValue([x |-> IntValue(1), y |-> IntValue(9)])]

\* C19: the result of _deep_merge is the deep merge of base and override
\* (lists and scalars of the override replace the base's value wholesale),
\* and {a:{x:1,y:2}} merged with {a:{y:9}} is {a:{x:1,y:9}}.
C19_DeepMerge ==
    gen.merged # None =>
        /\ IsDeepMerge(gen.merged[1], gen.base, gen.override)
        /\ (gen.base = ExampleBase /\ gen.override = ExampleOverride)
                => gen.merged[1] = ExampleMerged

\* C19 witness: the example of the claim was merged.
C19_Witness ==
    /\ gen.merged # None
    /\ gen.base = ExampleBase
    /\ gen.override = ExampleOverride
    /\ gen.merged[1]["a"].v["x"] = IntValue(1)

\* The connection took an inbound frame in this step.
TookFrame(w) == Len(ws'[w].inbox) > Len(ws[w].inbox)
\* The reply the claim gives for an inbound frame, by type.
RightReply(s, m, f) ==
    /\ f.session_id = s /\ f.seq = 0
    /\ m.kind = "object" /\ m.type = "ping" => f.type = "pong"
    /\ m.kind = "object" /\ m.type = "command" => f.type = "command_received"
    /\ m.kind = "object" /\ m.type = "get_status" =>
        /\ f.type \in {"status", "error"}
        /\ f.type = "status" => store[s] # None /\ f.data = GetDeploymentStatus(s).body
        /\ store[s] = None => f.type = "error"
    /\ (m.kind # "object" \/ m.type \notin {"ping", "command", "get_status"}) =>
        f.type = "error"

\* C20: the step in which a connection takes an inbound frame sends exactly
\* one frame, the reply for that frame's type, to that connection, which
\* stays open; no other connection is sent anything.
C20_OneReplyPerFrame ==
    [][\A w \in Sockets :
        TookFrame(w) =>
            /\ ws'[w].pc = "open"
            /\ Len(ws'[w].frames) = Len(ws[w].frames) + 1
            /\ SubSeq(ws'[w].frames, 1, Len(ws[w].frames)) = ws[w].frames
            /\ RightReply(ws[w].session, ws'[w].inbox[Len(ws'[w].inbox)],
                          ws'[w].frames[Len(ws'[w].frames)])
            /\ \A v \in Sockets \ {w} : ws'[v] = ws[v]]_vars

\* C21: the step in which a connection takes an inbound frame (ping,
\* get_status, a command with any value, an unknown type, a frame that is not
\* a JSON object) changes neither the slot, the Status Store, the child
\* processes nor the Supervisor tasks.
C21_FramesLeaveRunAlone ==
    [][(\E w \in Sockets : TookFrame(w)) =>
        UNCHANGED <<current_deployment_session, current_deployment_process,
                    store, child, tasks, handler, grants, inventory,
                    published>>]_vars

\* C21 witness: a connection sent the command cancel and was answered
\* command_received; the child of its session's run is still running.
C21_Witness ==
    \E w \in Sockets, r \in RunIds :
        /\ ws[w].pc = "open"
        /\ tasks[r].session = ws[w].session
        /\ child[r].state = "running"
        /\ Len(ws[w].inbox) = 1
        /\ ws[w].inbox[1].type = "command" /\ ws[w].inbox[1].command = "cancel"
        /\ ws[w].frames[Len(ws[w].frames)].type = "command_received"

\* The connections of the session whose handler is in its receive loop:
\* accepted and registered by manager.connect, not yet disconnected.
ConnectedSockets(s) == {w \in Sockets : ws[w].pc = "open" /\ ws[w].session = s}

\* C22: the registry holds exactly the connected sockets: the set of a
\* session is the set of its connected sockets (so a socket is in its
\* session's set from connect to disconnect and in no set afterwards), and a
\* session without connected sockets has no entry.
C22_RegistryIsConnectedSockets ==
    /\ DOMAIN active_connections \subseteq Sessions
    /\ \A s \in Sessions :
        /\ ActiveConnections(s) = ConnectedSockets(s)
        /\ s \in DOMAIN active_connections <=> ConnectedSockets(s) # {}

\* C22 witness: two connections of a session were registered and both have
\* gone, one by the client's close and one through a frame that made the
\* handler return; the registry is empty again.
C22_Witness ==
    /\ accepted = 2
    /\ active_connections = <<>>
    /\ \E w \in Sockets : ws[w].pc = "returned"
    /\ \E w \in Sockets : ws[w].pc = "idle"

\* A malformed payload as the claim has it: not valid JSON, or an object
\* lacking the data field.
Malformed(ev) == Form(ev) = "text" \/ (Form(ev) = "object" /\ ~HasData(ev))

\* C23: the step in which an SSE stream or a WebSocket forwarding task takes
\* a malformed payload from its subscription sends no frame for it, and
\* leaves the consumer subscribed with every later event still to come.
C23_MalformedPayloadDropped ==
    [][/\ \A c \in Clients :
            (SseForward(c) /\ Malformed(Head(sse[c].queue))) =>
                /\ sse'[c].frames = sse[c].frames
                /\ sse'[c].queue = Tail(sse[c].queue)
                /\ sse'[c].pc = "listening"
                /\ c \in subscriptions'
       /\ \A w \in Sockets :
            (WsForward(w) /\ Malformed(Head(ws[w].queue))) =>
                /\ ws'[w].frames = ws[w].frames
                /\ ws'[w].queue = Tail(ws[w].queue)
                /\ ws'[w].sub = "subscribed"
                /\ w \in subscriptions']_vars

\* The consumers that hold a subscription by the code's own account: an SSE
\* generator between its subscribe call and its finally block, a forwarding
\* task between its subscribe call and its end.
SubscribedConsumers ==
    {c \in Clients : sse[c].pc \in {"listening", "closing", "failed"}}
        \cup {w \in Sockets : ws[w].pc = "open" /\ ws[w].sub = "subscribed"}

\* C24: Redis holds a subscription exactly for the consumers that are
\* subscribed and have not ended: whichever way a consumer ends (terminal
\* status event, client disconnect or cancellation, internal error) its
\* subscription ends with it; and the end of a consumer that holds no
\* subscription changes no subscription.
C24_UnsubscribedOnEveryExit ==
    /\ [](subscriptions = SubscribedConsumers)
    /\ [][/\ \A c \in Clients :
                (sse[c].pc = "connected" /\ sse'[c] = NoStream) =>
                    subscriptions' = subscriptions
           /\ \A w \in Sockets :
                (ws[w].pc = "open" /\ ws[w].sub # "subscribed" /\ ws'[w] = NoSocket) =>
                    subscriptions' = subscriptions]_vars

\* C24 witness: the SSE stream of the session has ended, the forwarding task
\* of a connection that is still open has ended after an internal error (it
\* sent no frame of the channel), and no subscription is left.
C24_Witness ==
    /\ connects = 1 /\ sse["c1"].pc = "idle"
    /\ budget.foreign = 0
    /\ \E w \in Sockets :
        /\ ws[w].pc = "open" /\ ws[w].sub = "ended"
        /\ Len(ws[w].frames) = 1
    /\ subscriptions = {}

\* C25: when no question_set_id is given, or the one given names no existing
\* override document, the call returns (it does not fail) and the cluster
\* options are the base template, unmodified (empty when there is no base
\* template).
C25_MissingOverrideGivesBase ==
    LET named == gen.question_set_id \in
                    {Some(<<"cka", "/", "001">>), Some(<<"/", "cka", "/", "001", "/">>)}
        template == IF gen.base_file = None THEN <<>> ELSE gen.base_file[1]
    IN  (/\ gen.op = "config" /\ gen.config # None
         /\ (gen.question_set_id = None \/ ~named \/ gen.override_file = None))
            => gen.config[1] = template

\* C25 witness: question set cka/001 was asked for, it has no override
\* document, and the options returned are the base template {a: {x: 1, y: 2}}.
C25_Witness ==
    /\ gen.op = "config"
    /\ gen.question_set_id = Some(<<"cka", "/", "001">>)
    /\ gen.override_file = None
    /\ gen.base_file = Some(ExampleBase)
    /\ gen.config = Some(ExampleBase)

\* The question_set_id names question set cka/001.
NamesQuestionSet(question_set_id) ==
    question_set_id \in
        {Some(<<"cka", "/", "001">>), Some(<<"/", "cka", "/", "001", "/">>)}
\* q holds exactly the members of S, each once.
IsListingOf(q, S) ==
    /\ Len(q) = Cardinality(S)
    /\ {q[i] : i \in 1..Len(q)} = S

HasStatus(st, s, status) == st[s] # None /\ st[s].status = status

\* C27: status running is recorded only after the child process was spawned:
\* in every step that puts running into a session's record, the child process
\* of a run of that session exists.
C27_RunningOnlyAfterSpawn ==
    [][\A s \in Sessions :
          (HasStatus(store', s, "running") /\ ~HasStatus(store, s, "running")) =>
              \E r \in LiveTasks : tasks[r].session = s /\ r \in LiveChildren]_vars

\* Positions of run r's journal holding an entry of this kind.
Entries(r, op) == {i \in 1..Len(journal[r]) : journal[r][i].op = op}
\* Positions at which run r published a terminal status event, a log event.
TerminalPublishes(r) == {i \in Entries(r, "publish") : Terminal(journal[r][i].event)}
LogPublishes(r) == {i \in Entries(r, "publish") : journal[r][i].event.event_type = "log"}
\* Run r's Supervisor returned after its child process had exited.
EndedByExit(r) == tasks[r].pc = "done" /\ Entries(r, "wait") # {}
\* This step appended a terminal status event to run r's journal.
PublishedTerminal(r) ==
    /\ Len(journal'[r]) = Len(journal[r]) + 1
    /\ Len(journal'[r]) \in {i \in 1..Len(journal'[r]) :
                                /\ journal'[r][i].op = "publish"
                                /\ Terminal(journal'[r][i].event)}

\* C28: a run whose child process exited publishes exactly one terminal
\* status event; it comes after every log event of the run and after the
\* write of the final status, and when it is published the stored record of
\* the session has the same status and exit code.
C28_OneTerminalEventAfterFinalWrite ==
    /\ [](\A r \in RunIds :
            /\ Cardinality(TerminalPublishes(r)) <= 1
            /\ EndedByExit(r) => Cardinality(TerminalPublishes(r)) = 1
            /\ \A i \in TerminalPublishes(r) :
                    /\ \A j \in LogPublishes(r) : j < i
                    /\ \E k \in Entries(r, "set") :
                            /\ k < i
                            /\ journal[r][k].status = journal[r][i].event.data.status
                            /\ journal[r][k].exit_code =
                                    journal[r][i].event.data.exit_code)
    /\ [][\A r \in RunIds :
            PublishedTerminal(r) =>
                LET ev == journal'[r][Len(journal'[r])].event
                    s == tasks[r].session
                IN  /\ HasStatus(store', s, ev.data.status)
                    /\ store'[s].exit_code = ev.data.exit_code]_vars

\* The lines run r read so far, in order.
LinesRead(r) ==
    LET reads == SelectSeq(journal[r], LAMBDA e : e.op = "read")
    IN  [i \in 1..Len(reads) |-> reads[i].line]
\* Entry i of run r's journal is the publication of a log event.
IsLogPublish(r, i) ==
    /\ i \in 1..Len(journal[r])
    /\ journal[r][i].op = "publish"
    /\ journal[r][i].event.event_type = "log"

\* C29: every line the Supervisor reads from the child's output is followed
\* by exactly one log event carrying the line (without its trailing white
\* space) when it is not empty and by none when it is empty, no other log
\* event is published, and when the Supervisor stops reading it has read
\* every line the child wrote.
C29_OneLogEventPerLine ==
    \A r \in RunIds :
        /\ \A i \in Entries(r, "read") :
                IF rstrip(journal[r][i].line) # <<>>
                THEN /\ IsLogPublish(r, i + 1)
                     /\ journal[r][i + 1].event.data.message = rstrip(journal[r][i].line)
                ELSE ~IsLogPublish(r, i + 1)
        /\ \A i \in LogPublishes(r) : i > 1 /\ journal[r][i - 1].op = "read"
        /\ (Entries(r, "wait") # {} /\ child[r].state = "exited") =>
                LinesRead(r) = child[r].out

\* The statuses run r wrote, in order.
StatusesWritten(r) ==
    LET sets == SelectSeq(journal[r], LAMBDA e : e.op = "set")
    IN  [i \in 1..Len(sets) |-> sets[i].status]
\* The place of a status in the life of a run.
Rank(status) ==
    CASE status = "started" -> 1
      [] status = "running" -> 2
      [] status \in {"completed", "failed"} -> 3
\* A record without its remaining time to live.
Content(rec) == [rec EXCEPT !.ttl = 0]
\* A write of this step changed the record of session s.
Rewritten(s) == store'[s] # None /\ Content(store'[s]) # Content(store[s])

\* C30: the statuses one run writes are in the order started, running,
\* completed or failed, each at most once; whenever the run's child process
\* exists, started has been written by the run; the status of a session's
\* record changes only to started or to a later status; and a record with a
\* terminal status is rewritten only by a deploy request granted for the
\* session after it, or by the run of such a request.
C30_StatusMovesForward ==
    /\ [](\A r \in RunIds :
            /\ \A i, j \in 1..Len(StatusesWritten(r)) :
                    i < j => Rank(StatusesWritten(r)[i]) < Rank(StatusesWritten(r)[j])
            /\ r \in LiveChildren =>
                    /\ StatusesWritten(r) # <<>>
                    /\ StatusesWritten(r)[1] = "started")
    /\ [][\A s \in Sessions :
            (store[s] # None /\ store'[s] # None
                /\ store'[s].status # store[s].status) =>
                    \/ store'[s].status = "started"
                    \/ Rank(store[s].status) < Rank(store'[s].status)]_vars
    /\ [][\A s \in Sessions :
            (/\ store[s] # None
             /\ store[s].status \in {"completed", "failed"}
             /\ Rewritten(s)) =>
                \/ handler # None /\ handler.session = s
                \/ \E r \in LiveTasks :
                        /\ tasks[r].session = s
                        /\ \A i \in 1..Len(StatusesWritten(r)) :
                                Rank(StatusesWritten(r)[i]) < 3]_vars

\* This step is the return of the deploy handler that was granted for s.
HandlerReturns(s) == handler # None /\ handler.session = s /\ handler' = None

\* C31: when a granted deploy request returns for a session that has a
\* record of an earlier run, the record is afterwards the started record of
\* the new run: status started, the new playbook and start time, no
\* completion time, no exit code, and the full time to live.
C31_GrantReplacesRecord ==
    [][\A s \in Sessions :
          (HandlerReturns(s) /\ store[s] # None) =>
              /\ store'[s] # None
              /\ store'[s].session_id = s
              /\ store'[s].status = "started"
              /\ store'[s].playbook = handler.playbook
              /\ store'[s].started_at = handler.run
              /\ store'[s].completed_at = NULL
              /\ store'[s].exit_code = None
              /\ store'[s].ttl = TtlTicks]_vars

\* C32: every stored record is consistent: with status started or running
\* it has no completion time and no exit code; with status completed its
\* exit code is 0; with status failed its exit code is not 0; and with a
\* terminal status its completion time is set.
C32_RecordConsistent ==
    \A s \in Sessions :
        store[s] # None =>
            /\ store[s].status \in {"started", "running", "completed", "failed"}
            /\ store[s].status \in {"started", "running"} =>
                    store[s].completed_at = NULL /\ store[s].exit_code = None
            /\ store[s].status = "completed" => store[s].exit_code = Some(0)
            /\ store[s].status = "failed" =>
                    store[s].exit_code # None /\ store[s].exit_code # Some(0)
            /\ store[s].status \in Terminals => store[s].completed_at # NULL

\* C33: the admission slot and the Status Store agree: whenever the slot is
\* empty, no session's record has status started or running.
C33_EmptySlotNoActiveRecord ==
    current_deployment_session = NULL => \A s \in Sessions : ~Active(s)

\* This step answered a deploy request for s that no handler was suspended
\* on: the request arrived and was answered in this step.
Refused(s) ==
    /\ handler = None /\ handler' = None
    /\ resp' # None /\ resp'.op = "deploy" /\ resp'.session = s

\* C34: while session s holds the admission slot, no deploy request for s is
\* granted; a deploy request for s is answered 409, and the step leaves the
\* slot, the store, the tasks and the child processes as they were.
C34_SameSessionDenied ==
    [][\A s \in Sessions :
          current_deployment_session = s =>
              /\ grants' = grants
              /\ Refused(s) =>
                    /\ resp'.code = 409
                    /\ UNCHANGED <<current_deployment_session,
                                   current_deployment_process, store, tasks, child>>]_vars

\* C34 witness: a deploy request for the session that holds the slot, whose
\* child process is running, was answered 409.
C34_Witness ==
    /\ resp # None /\ resp.op = "deploy" /\ resp.code = 409
    /\ resp.session = current_deployment_session
    /\ \E r \in LiveTasks : tasks[r].session = resp.session /\ child[r].state = "running"

\* C35: whenever the admission slot names session s, the handler that set
\* it is still suspended (it will create the Supervisor task) or a live
\* Supervisor task for s exists (its finally block will clear the slot).
C35_HeldSlotHasReleaser ==
    \A s \in Sessions :
        current_deployment_session = s =>
            \/ handler # None /\ handler.session = s
            \/ \E r \in LiveTasks : tasks[r].session = s

\* Stream c is subscribed to the channel of a run that is about to end: its
\* Supervisor has written the final status and will publish its last event.
WatchingEnd(c) ==
    /\ sse[c].pc = "listening"
    /\ \E r \in LiveTasks :
            /\ tasks[r].session = sse[c].session
            /\ tasks[r].pc \in {"final_publish", "exc_publish"}

\* C36: a stream that is subscribed to a session when its run ends, by the
\* exit of the child or by an exception of the Supervisor, eventually ends.
C36_StreamClosesAfterRun ==
    \A c \in Clients : WatchingEnd(c) ~> (sse[c].pc = "idle")

\* This step is an update of the status by the Supervisor of run r.
Updates(r) ==
    /\ tasks[r].pc \in {"created", "final_update", "exc_update"}
    /\ tasks'[r].pc # tasks[r].pc

\* C37: an update of the status of a session whose record is absent writes
\* nothing: the Status Store is the same after the step.
C37_UpdateCreatesNothing ==
    [][\A r \in RunIds :
          (Updates(r) /\ store[tasks[r].session] = None) => store' = store]_vars

\* C37 witness: a run whose record expired while its child was running has
\* updated the final status and is about to publish; the session has no
\* record.
C37_Witness ==
    \E r \in RunIds :
        /\ tasks[r].pc = "final_publish"
        /\ store[tasks[r].session] = None
        /\ \E i \in 1..Len(journal[r]) :
                journal[r][i].op = "set" /\ journal[r][i].status = "running"

\* C38: after a generation for a session returned successfully, the session's
\* directory holds exactly the files of the returned list; files of an
\* earlier generation for the session do not remain.
C38_DirectoryIsReturnedList ==
    \A s \in Sessions :
        bundle[s].outcome = "ok" => bundle[s].files = Range(bundle[s].returned)

\* This step answers a deploy request for s that passed the inventory
\* check: the request is admitted, or it is refused with 409.
PassesInventoryCheck(s) ==
    \/ handler = None /\ handler' # None /\ handler'.session = s
    \/ /\ resp' # None /\ resp' # resp
       /\ resp'.op = "deploy" /\ resp'.session = s /\ resp'.code = 409

\* C39: a deploy request passes the inventory check only for a session
\* whose latest generation completed successfully.
C39_DeployableOnlyAfterSuccess ==
    [][\A s \in Sessions : PassesInventoryCheck(s) => bundle[s].outcome = "ok"]_vars

\* This step writes to the directory of session s.
WritesBundle(s) == bundle'[s].writes # bundle[s].writes

\* The child process of a run for session s is running.
ChildRunning(s) ==
    \E r \in RunIds : tasks[r].session = s /\ child[r].state = "running"

\* C40: no step writes to a session's directory while the session's record
\* is started or running, nor while its child process is running.
C40_BundleUntouchedDuringRun ==
    [][\A s \in Sessions :
          WritesBundle(s) =>
              /\ ~HasStatus(store, s, "started")
              /\ ~HasStatus(store, s, "running")
              /\ ~ChildRunning(s)]_vars
====
